---- MODULE Spec2Model ----
(***************************************************************************)
(* github-lang-stats: the durable progress store (cache.ts), the pipeline  *)
(* orchestrator getGithubLangStats (index.ts), the rate-limited remote     *)
(* client (github-client.ts), the language detector and the aggregator     *)
(* (aggregator.ts), as state machines and operators.                       *)
(***************************************************************************)
EXTENDS Integers, Sequences, FiniteSets, TLC

(***************************************************************************)
(* Generic helpers for JavaScript values.                                  *)
(*  - a plain object used as a string-keyed map whose key order is never   *)
(*    observed is a TLA+ function;                                         *)
(*  - an object whose key order is observed (Object.entries) is a sequence *)
(*    of [key, val] entries in insertion order.                            *)
(***************************************************************************)
EmptyMap == [k \in {} |-> 0]

MapPut(m, k, v) == [j \in (DOMAIN m) \cup {k} |-> IF j = k THEN v ELSE m[j]]

Range(s) == {s[i] : i \in DOMAIN s}

Includes(s, x) == \E i \in DOMAIN s : s[i] = x

Min(a, b) == IF a < b THEN a ELSE b

Max(a, b) == IF a > b THEN a ELSE b

OmHas(m, k) == \E i \in DOMAIN m : m[i].key = k

OmGet(m, k) == m[CHOOSE i \in DOMAIN m : m[i].key = k].val

OmKeys(m) == {m[i].key : i \in DOMAIN m}

\* obj[k] = (obj[k] ?? 0) + n : a new key is appended, an old one keeps its place
OmAdd(m, k, n) ==
    IF OmHas(m, k)
    THEN [i \in DOMAIN m |-> IF m[i].key = k
                             THEN [key |-> k, val |-> m[i].val + n]
                             ELSE m[i]]
    ELSE Append(m, [key |-> k, val |-> n])

\* obj[k] = v
OmSet(m, k, v) ==
    IF OmHas(m, k)
    THEN [i \in DOMAIN m |-> IF m[i].key = k THEN [key |-> k, val |-> v] ELSE m[i]]
    ELSE Append(m, [key |-> k, val |-> v])

(***************************************************************************)
(* Language detector.  A filename is a sequence of one-character strings.  *)
(***************************************************************************)
RECURSIVE Str(_)
Str(cs) == IF cs = <<>> THEN "" ELSE Head(cs) \o Str(Tail(cs))

\* String.prototype.lastIndexOf, 1-based; 0 stands for -1
LastIndexOf(cs, c) ==
    IF \E i \in DOMAIN cs : cs[i] = c
    THEN CHOOSE i \in DOMAIN cs : cs[i] = c /\ \A j \in (i + 1)..Len(cs) : cs[j] # c
    ELSE 0

UpperToLower ==
    ("A" :> "a") @@ ("B" :> "b") @@ ("C" :> "c") @@ ("D" :> "d") @@ ("E" :> "e") @@
    ("F" :> "f") @@ ("G" :> "g") @@ ("H" :> "h") @@ ("I" :> "i") @@ ("J" :> "j") @@
    ("K" :> "k") @@ ("L" :> "l") @@ ("M" :> "m") @@ ("N" :> "n") @@ ("O" :> "o") @@
    ("P" :> "p") @@ ("Q" :> "q") @@ ("R" :> "r") @@ ("S" :> "s") @@ ("T" :> "t") @@
    ("U" :> "u") @@ ("V" :> "v") @@ ("W" :> "w") @@ ("X" :> "x") @@ ("Y" :> "y") @@
    ("Z" :> "z")

ToLowerCase(cs) ==
    [i \in DOMAIN cs |-> IF cs[i] \in DOMAIN UpperToLower THEN UpperToLower[cs[i]] ELSE cs[i]]

EXT_MAP ==
    (".ts" :> "TypeScript") @@
    (".tsx" :> "TypeScript") @@
    (".mts" :> "TypeScript") @@
    (".cts" :> "TypeScript") @@
    (".js" :> "JavaScript") @@
    (".jsx" :> "JavaScript") @@
    (".mjs" :> "JavaScript") @@
    (".cjs" :> "JavaScript") @@
    (".html" :> "HTML") @@
    (".htm" :> "HTML") @@
    (".css" :> "CSS") @@
    (".scss" :> "SCSS") @@
    (".sass" :> "Sass") @@
    (".less" :> "Less") @@
    (".svelte" :> "Svelte") @@
    (".vue" :> "Vue") @@
    (".astro" :> "Astro") @@
    (".py" :> "Python") @@
    (".rb" :> "Ruby") @@
    (".go" :> "Go") @@
    (".rs" :> "Rust") @@
    (".java" :> "Java") @@
    (".kt" :> "Kotlin") @@
    (".kts" :> "Kotlin") @@
    (".cs" :> "C#") @@
    (".cpp" :> "C++") @@
    (".cc" :> "C++") @@
    (".cxx" :> "C++") @@
    (".c" :> "C") @@
    (".h" :> "C") @@
    (".hpp" :> "C++") @@
    (".swift" :> "Swift") @@
    (".php" :> "PHP") @@
    (".scala" :> "Scala") @@
    (".clj" :> "Clojure") @@
    (".cljs" :> "ClojureScript") @@
    (".ex" :> "Elixir") @@
    (".exs" :> "Elixir") @@
    (".erl" :> "Erlang") @@
    (".hrl" :> "Erlang") @@
    (".hs" :> "Haskell") @@
    (".lhs" :> "Haskell") @@
    (".ml" :> "OCaml") @@
    (".mli" :> "OCaml") @@
    (".fs" :> "F#") @@
    (".fsi" :> "F#") @@
    (".fsx" :> "F#") @@
    (".dart" :> "Dart") @@
    (".lua" :> "Lua") @@
    (".r" :> "R") @@
    (".R" :> "R") @@
    (".m" :> "MATLAB") @@
    (".julia" :> "Julia") @@
    (".jl" :> "Julia") @@
    (".nim" :> "Nim") @@
    (".zig" :> "Zig") @@
    (".cr" :> "Crystal") @@
    (".d" :> "D") @@
    (".sh" :> "Shell") @@
    (".bash" :> "Shell") @@
    (".zsh" :> "Shell") @@
    (".fish" :> "Shell") @@
    (".ps1" :> "PowerShell") @@
    (".psm1" :> "PowerShell") @@
    (".bat" :> "Batchfile") @@
    (".cmd" :> "Batchfile") @@
    (".json" :> "JSON") @@
    (".json5" :> "JSON5") @@
    (".jsonc" :> "JSON") @@
    (".yaml" :> "YAML") @@
    (".yml" :> "YAML") @@
    (".toml" :> "TOML") @@
    (".xml" :> "XML") @@
    (".csv" :> "CSV") @@
    (".tsv" :> "TSV") @@
    (".ini" :> "INI") @@
    (".env" :> "Shell") @@
    (".tf" :> "HCL") @@
    (".tfvars" :> "HCL") @@
    (".hcl" :> "HCL") @@
    (".bicep" :> "Bicep") @@
    (".dockerfile" :> "Dockerfile") @@
    (".sql" :> "SQL") @@
    (".pgsql" :> "SQL") @@
    (".mysql" :> "SQL") @@
    (".md" :> "Markdown") @@
    (".mdx" :> "MDX") @@
    (".rst" :> "reStructuredText") @@
    (".tex" :> "TeX") @@
    (".graphql" :> "GraphQL") @@
    (".gql" :> "GraphQL") @@
    (".proto" :> "Protocol Buffer") @@
    (".nix" :> "Nix") @@
    (".pkl" :> "Pkl") @@
    (".wasm" :> "WebAssembly") @@
    (".wat" :> "WebAssembly")

FILENAME_MAP ==
    ("Dockerfile" :> "Dockerfile") @@
    ("Makefile" :> "Makefile") @@
    ("Gemfile" :> "Ruby") @@
    ("Rakefile" :> "Ruby") @@
    ("Podfile" :> "Ruby") @@
    ("Vagrantfile" :> "Ruby") @@
    ("Brewfile" :> "Ruby") @@
    (".eslintrc" :> "JSON") @@
    (".prettierrc" :> "JSON") @@
    (".babelrc" :> "JSON") @@
    (".nvmrc" :> "Shell") @@
    (".node-version" :> "Shell")

EXCLUDED_LANGUAGES ==
    {"JSON", "YAML", "TOML", "XML", "CSV", "TSV", "INI", "Markdown", "MDX",
     "reStructuredText", "TeX"}

\* the value of "no language" (null)
NoLang == ""

\* filename.split("/").pop()
Basename(filename) == SubSeq(filename, LastIndexOf(filename, "/") + 1, Len(filename))

detectLanguage(filename) ==
    LET basename == Basename(filename)
        dotIndex == LastIndexOf(basename, ".")
        ext      == Str(ToLowerCase(SubSeq(basename, dotIndex, Len(basename))))
    IN  IF Str(basename) \in DOMAIN FILENAME_MAP THEN FILENAME_MAP[Str(basename)]
        ELSE IF dotIndex = 0 THEN NoLang
        ELSE IF ext \in DOMAIN EXT_MAP THEN EXT_MAP[ext]
        ELSE NoLang

\* a detector that excludes nothing: ExclusionComposition fails of it
isExcludedLanguageNever(language) == FALSE

isExcludedLanguage(language) == language \in EXCLUDED_LANGUAGES

(***************************************************************************)
(* Durable progress store (cache.ts).                                      *)
(*   Repo          [owner, name, isPrivate]                                *)
(*   CommitDetail  [kind |-> "detail", sha, date, files]; date is the      *)
(*                 author timestamp [day, ms] (calendar day, ms in day)    *)
(*   null          NULL, the tombstone                                     *)
(*   Cache         [version, repos, completedRepos, commitsByRepo,         *)
(*                  commitDetails, prCountByRepo, completedPRRepos]        *)
(***************************************************************************)
CACHE_VERSION == 3

NULL == [kind |-> "null"]

emptyCache ==
    [version          |-> CACHE_VERSION,
     repos            |-> <<>>,
     completedRepos   |-> <<>>,
     commitsByRepo    |-> EmptyMap,
     commitDetails    |-> EmptyMap,
     prCountByRepo    |-> EmptyMap,
     completedPRRepos |-> <<>>]

repoKey(r) == r.owner \o "/" \o r.name

\* A file on disk: missing, unreadable (readFileSync throws), text that is
\* not JSON (JSON.parse throws), or JSON text holding the value doc.
FileMissing == [kind |-> "missing"]

FileUnreadable == [kind |-> "unreadable"]

FileGarbage == [kind |-> "garbage"]

JsonFile(doc) == [kind |-> "json", doc |-> doc]

\* JSON.stringify(this.data, null, 2) / JSON.parse(raw): every value of the
\* store is a string, a number, a boolean, null, an array or a plain object,
\* which the text form keeps as it is.
JsonStringify(data) == JsonFile(data)

JsonParse(file) == file.doc

\* the body of the try block of load(): [threw, val]
\* a load that accepts a document of any version: CacheIntegrity fails of it
LoadTryAnyVersion(file) ==
    IF file.kind = "unreadable" THEN [threw |-> TRUE, val |-> emptyCache]
    ELSE IF file.kind = "garbage" THEN [threw |-> TRUE, val |-> emptyCache]
    ELSE LET parsed == JsonParse(file)
         IN  IF parsed = NULL
             THEN [threw |-> TRUE, val |-> emptyCache]
             ELSE [threw |-> FALSE, val |-> parsed]

LoadTry(file) ==
    IF file.kind = "unreadable" THEN [threw |-> TRUE, val |-> emptyCache]
    ELSE IF file.kind = "garbage" THEN [threw |-> TRUE, val |-> emptyCache]
    ELSE LET parsed == JsonParse(file)
         IN  IF parsed = NULL
             THEN [threw |-> TRUE, val |-> emptyCache]       \* null.version
             ELSE IF "version" \notin DOMAIN parsed          \* undefined !== 3
             THEN [threw |-> FALSE, val |-> emptyCache]
             ELSE IF parsed.version # CACHE_VERSION
             THEN [threw |-> FALSE, val |-> emptyCache]
             ELSE [threw |-> FALSE, val |-> parsed]

\* a load that never reads the file: PipelineIdempotent fails of it
loadFresh(file) == [threw |-> FALSE, data |-> emptyCache]

\* CacheStore.load(): [threw, data]; threw says an exception left load()
load(file) ==
    IF file.kind = "missing" THEN [threw |-> FALSE, data |-> emptyCache]
    ELSE LET r == LoadTry(file)
         IN  IF r.threw
             THEN [threw |-> FALSE, data |-> emptyCache]     \* catch
             ELSE [threw |-> FALSE, data |-> r.val]

\* CacheStore.save(): the new content of the file
save(data) == JsonStringify(data)

isRepoComplete(data, key) == Includes(data.completedRepos, key)

\* a mark that records nothing: PhaseOrder fails of it
markRepoCompleteSkip(data, key) == data

\* a mark that keeps only the newest key: FlagsMonotonic fails of it
markRepoCompleteOnly(data, key) == [data EXCEPT !.completedRepos = <<key>>]

markRepoComplete(data, key) ==
    IF ~Includes(data.completedRepos, key)
    THEN [data EXCEPT !.completedRepos = Append(@, key)]
    ELSE data

getCommits(data, key) ==
    IF key \in DOMAIN data.commitsByRepo THEN data.commitsByRepo[key] ELSE <<>>

\* a merge that appends without the filter: MergeResult fails of it
addCommitsAppend(data, key, shas) ==
    [data EXCEPT !.commitsByRepo = MapPut(@, key, getCommits(data, key) \o shas)]

addCommits(data, key, shas) ==
    LET existing    == getCommits(data, key)
        existingSet == Range(existing)
        newShas     == SelectSeq(shas, LAMBDA s : s \notin existingSet)
    IN  [data EXCEPT !.commitsByRepo = MapPut(@, key, existing \o newShas)]

\* a test that takes a stored null for a missing entry: TombstoneTerminal
\* fails of it
hasCommitDetailValue(data, sha) ==
    sha \in DOMAIN data.commitDetails /\ data.commitDetails[sha] # NULL

hasCommitDetail(data, sha) == sha \in DOMAIN data.commitDetails

setCommitDetail(data, sha, detail) ==
    [data EXCEPT !.commitDetails = MapPut(@, sha, detail)]

\* the hashes of one list that have no entry in commitDetails
PendingIn(data, list) == Len(SelectSeq(list, LAMBDA sha : ~hasCommitDetail(data, sha)))

RECURSIVE PendingOver(_, _)
PendingOver(data, keys) ==
    IF keys = {} THEN 0
    ELSE LET k == CHOOSE x \in keys : TRUE
         IN  PendingIn(data, data.commitsByRepo[k]) + PendingOver(data, keys \ {k})

pendingCommitCount(data) == PendingOver(data, DOMAIN data.commitsByRepo)

isRepoPRComplete(data, key) == Includes(data.completedPRRepos, key)

markRepoPRComplete(data, key) ==
    IF ~Includes(data.completedPRRepos, key)
    THEN [data EXCEPT !.completedPRRepos = Append(@, key)]
    ELSE data

setPRCount(data, key, count) ==
    [data EXCEPT !.prCountByRepo = MapPut(@, key, count)]

(***************************************************************************)
(* Aggregator (aggregator.ts).  commitsByRepo is the ordered entry list of *)
(* the object handed to aggregate; the accumulators totals, repoLangs and  *)
(* byRepo are insertion-ordered objects.                                   *)
(***************************************************************************)
ZeroDate == [day |-> 0, ms |-> 0]

\* new Date(detail.date).toISOString().split("T")[0]: the calendar day
IsoDate(date) == date.day

\* lines 49-58: one file change
\* a fold that counts additions only: AggregationCorrect fails of it
FoldFileAdditions(acc, file, excludeLanguages) ==
    LET lang == detectLanguage(file.filename)
    IN  IF lang = NoLang THEN acc
        ELSE IF isExcludedLanguage(lang) THEN acc
        ELSE IF Includes(excludeLanguages, lang) THEN acc
        ELSE [acc EXCEPT !.repoLangs = OmAdd(@, lang, file.additions),
                         !.totals    = OmAdd(@, lang, file.additions)]

FoldFile(acc, file, excludeLanguages) ==
    LET lang == detectLanguage(file.filename)
    IN  IF lang = NoLang THEN acc
        ELSE IF isExcludedLanguage(lang) THEN acc
        ELSE IF Includes(excludeLanguages, lang) THEN acc
        ELSE LET lines == file.additions + file.deletions
             IN  [acc EXCEPT !.repoLangs = OmAdd(@, lang, lines),
                             !.totals    = OmAdd(@, lang, lines)]

RECURSIVE FoldFiles(_, _, _)
FoldFiles(acc, files, excludeLanguages) ==
    IF files = <<>> THEN acc
    ELSE FoldFiles(FoldFile(acc, Head(files), excludeLanguages), Tail(files),
                   excludeLanguages)

\* lines 36-59: one hash of a repository's list
FoldCommit(acc, sha, commitDetails, excludeLanguages, includeCommitDates) ==
    IF sha \notin DOMAIN commitDetails THEN acc              \* undefined
    ELSE IF commitDetails[sha] = NULL THEN acc               \* null
    ELSE LET detail == commitDetails[sha]
             a1 == [acc EXCEPT !.totalCommitsProcessed = @ + 1]
             a2 == IF includeCommitDates /\ detail.date # ZeroDate
                   THEN [a1 EXCEPT !.commitDates = Append(@, IsoDate(detail.date))]
                   ELSE a1
         IN  FoldFiles(a2, detail.files, excludeLanguages)

RECURSIVE FoldCommits(_, _, _, _, _)
FoldCommits(acc, shas, commitDetails, excludeLanguages, includeCommitDates) ==
    IF shas = <<>> THEN acc
    ELSE FoldCommits(FoldCommit(acc, Head(shas), commitDetails, excludeLanguages,
                                includeCommitDates),
                     Tail(shas), commitDetails, excludeLanguages, includeCommitDates)

\* repoMap.get(key): the last repo of the list with that key
RepoLookup(repos, key) ==
    LET idx == {i \in DOMAIN repos : repoKey(repos[i]) = key}
    IN  IF idx = {} THEN EmptyMap
        ELSE repos[CHOOSE i \in idx : \A j \in idx : j <= i]

\* a repository fold that starts the totals afresh: TotalsMatchByRepo fails
\* of it
FoldRepoFreshTotals(acc, entry, commitDetails, excludeLanguages, includeCommitDates, prCountByRepo, repos, includePRCounts) ==
    LET start == [repoLangs |-> <<>>, commitDates |-> <<>>, totals |-> <<>>,
                  totalCommitsProcessed |-> acc.totalCommitsProcessed]
        r     == FoldCommits(start, entry.val, commitDetails, excludeLanguages,
                             includeCommitDates)
    IN  [totals |-> r.totals,
         totalCommitsProcessed |-> r.totalCommitsProcessed,
         byRepo |-> IF Len(r.repoLangs) > 0
                    THEN OmSet(acc.byRepo, entry.key,
                               [contributionsCountPerLanguage |-> r.repoLangs])
                    ELSE acc.byRepo]

\* lines 32-87: one repository
FoldRepo(acc, entry, commitDetails, excludeLanguages, includeCommitDates, prCountByRepo, repos, includePRCounts) ==
    LET start == [repoLangs |-> <<>>, commitDates |-> <<>>, totals |-> acc.totals,
                  totalCommitsProcessed |-> acc.totalCommitsProcessed]
        r     == FoldCommits(start, entry.val, commitDetails, excludeLanguages,
                             includeCommitDates)
        repo  == RepoLookup(repos, entry.key)
        repoData ==
            [contributionsCountPerLanguage |-> r.repoLangs]
            @@ (IF includeCommitDates /\ Len(r.commitDates) > 0
                THEN [commitDates |-> r.commitDates] ELSE EmptyMap)
            @@ (IF includePRCounts /\ entry.key \in DOMAIN prCountByRepo
                THEN [prCount |-> prCountByRepo[entry.key]] ELSE EmptyMap)
            @@ (IF "isPrivate" \in DOMAIN repo
                THEN [isPrivate |-> repo.isPrivate] ELSE EmptyMap)
    IN  [totals |-> r.totals,
         totalCommitsProcessed |-> r.totalCommitsProcessed,
         byRepo |-> IF Len(r.repoLangs) > 0
                    THEN OmSet(acc.byRepo, entry.key, repoData)
                    ELSE acc.byRepo]

RECURSIVE FoldRepos(_, _, _, _, _, _, _, _)
FoldRepos(acc, entries, commitDetails, excludeLanguages, includeCommitDates, prCountByRepo, repos, includePRCounts) ==
    IF entries = <<>> THEN acc
    ELSE FoldRepos(FoldRepo(acc, Head(entries), commitDetails, excludeLanguages,
                            includeCommitDates, prCountByRepo, repos, includePRCounts),
                   Tail(entries), commitDetails, excludeLanguages, includeCommitDates,
                   prCountByRepo, repos, includePRCounts)

\* an insertion that keeps the order of arrival: SortOrder fails of it
InsertDescAppend(sorted, e) == Append(sorted, e)

\* Array.prototype.sort(([, a], [, b]) => b - a), a stable sort: e goes
\* before the first entry whose count is smaller
InsertDesc(sorted, e) ==
    LET smaller == {i \in DOMAIN sorted : sorted[i].val < e.val}
        pos     == IF smaller = {} THEN Len(sorted) + 1
                   ELSE CHOOSE i \in smaller : \A j \in smaller : i <= j
    IN  SubSeq(sorted, 1, pos - 1) \o <<e>> \o SubSeq(sorted, pos, Len(sorted))

RECURSIVE SortDesc(_, _)
SortDesc(sorted, rest) ==
    IF rest = <<>> THEN sorted ELSE SortDesc(InsertDesc(sorted, Head(rest)), Tail(rest))

\* The characters of the repository keys of the model, with their UTF-16 code
\* unit and their collation weights: at the first level "/" sorts before the
\* letters and a letter has the weight of its place in the alphabet whatever
\* its case; at the third level a small letter sorts before its capital.
CodeUnit == ("/" :> 47) @@ ("B" :> 66) @@ ("a" :> 97) @@ ("b" :> 98) @@ ("o" :> 111) @@ ("p" :> 112)

PrimaryWeight == ("/" :> 0) @@ ("a" :> 1) @@ ("b" :> 2) @@ ("B" :> 2) @@ ("o" :> 15) @@ ("p" :> 16)

TertiaryWeight == ("/" :> 0) @@ ("a" :> 0) @@ ("b" :> 0) @@ ("o" :> 0) @@ ("p" :> 0) @@ ("B" :> 1)

KeyChars ==
    {<<"o", "/", "a">>, <<"o", "/", "b">>, <<"o", "/", "B">>, <<"p", "/", "a">>}

\* the characters of a key
CharsOf(key) == CHOOSE cs \in KeyChars : Str(cs) = key

\* a comes before b when the weights w are compared place by place
RECURSIVE SeqLess(_, _, _)
SeqLess(a, b, w) ==
    IF b = <<>> THEN FALSE
    ELSE IF a = <<>> THEN TRUE
    ELSE IF w[Head(a)] # w[Head(b)] THEN w[Head(a)] < w[Head(b)]
    ELSE SeqLess(Tail(a), Tail(b), w)

\* a.localeCompare(b) < 0: the first level decides, the third breaks its ties
localeCompareLess(a, b) ==
    LET ca == CharsOf(a)
        cb == CharsOf(b)
    IN  IF SeqLess(ca, cb, PrimaryWeight) \/ SeqLess(cb, ca, PrimaryWeight)
        THEN SeqLess(ca, cb, PrimaryWeight)
        ELSE SeqLess(ca, cb, TertiaryWeight)

InsertByKey(sorted, e) ==
    LET later == {i \in DOMAIN sorted : localeCompareLess(e.key, sorted[i].key)}
        pos   == IF later = {} THEN Len(sorted) + 1
                 ELSE CHOOSE i \in later : \A j \in later : i <= j
    IN  SubSeq(sorted, 1, pos - 1) \o <<e>> \o SubSeq(sorted, pos, Len(sorted))

RECURSIVE SortByKey(_, _)
SortByKey(sorted, rest) ==
    IF rest = <<>> THEN sorted ELSE SortByKey(InsertByKey(sorted, Head(rest)), Tail(rest))

\* lines 95-114: the languages of one byRepo entry sorted, the optional
\* fields carried over
SortRepoData(data) ==
    [k \in DOMAIN data |->
        IF k = "contributionsCountPerLanguage"
        THEN SortDesc(<<>>, data.contributionsCountPerLanguage)
        ELSE data[k]]

aggregate(user, commitsByRepo, commitDetails, excludeLanguages, includeCommitDates, prCountByRepo, repos, includePRCounts) ==
    LET acc0 == [totals |-> <<>>, byRepo |-> <<>>, totalCommitsProcessed |-> 0]
        acc  == FoldRepos(acc0, commitsByRepo, commitDetails, excludeLanguages,
                          includeCommitDates, prCountByRepo, repos, includePRCounts)
        sortedTotals == SortDesc(<<>>, acc.totals)
        byKey        == SortByKey(<<>>, acc.byRepo)
        sortedByRepo == [i \in DOMAIN byKey |->
                            [key |-> byKey[i].key, val |-> SortRepoData(byKey[i].val)]]
    IN  [totals |-> sortedTotals,
         byRepo |-> sortedByRepo,
         meta   |-> [user |-> user,
                     totalCommitsProcessed |-> acc.totalCommitsProcessed,
                     totalRepos |-> Len(acc.byRepo),
                     unit |-> "lines_changed"]
                    @@ (IF includePRCounts THEN EmptyMap ELSE [excludedPRs |-> TRUE])]

(***************************************************************************)
(* State.                                                                  *)
(***************************************************************************)
VARIABLES
    \* the pipeline getGithubLangStats: the cache file, the in-memory store,
    \* the options, the remote, the control point and the locals
    disk, cache, opts, remote, pc,
    reposToProcess, incompleteRepos, ei, shas, cursor,
    workList, wi, inflight,
    incompletePRRepos, pj, prFetched,
    result,
    \* history of the pipeline: passes started, terminations, the hashes
    \* tombstoned when the pass began, the outcome of the pass before
    runs, crashes, passTomb, prev,
    \* the remote requests the pass has issued, in order
    sent,
    \* the CLI's count of details recorded since its last flush
    saveCounter,
    \* the progress events delivered to onProgress in the pass, in order
    events,
    \* one call of discoverContributedRepos: its arguments, the answers of
    \* the server, its position, its locals and the queries it has sent
    disc,
    \* a CacheStore under a sequence of calls, and the calls made
    sData, sLog,
    \* a CacheStore constructed from a file
    lFile, lOut,
    \* the client's rate state, the clock and the calls in progress
    rateLimitTotal, rateLimitRemaining, rateLimitReset, now, calls,
    \* aggregate under test: its arguments and its result
    aIn, aOut

pipeVars == <<disk, cache, opts, remote, pc, reposToProcess, incompleteRepos, ei, shas,
              cursor, workList, wi, inflight, incompletePRRepos, pj, prFetched, result,
              runs, crashes, passTomb, prev, sent, saveCounter, events, disc>>

storeVars == <<sData, sLog>>

loadVars == <<lFile, lOut>>

rateVars == <<rateLimitTotal, rateLimitRemaining, rateLimitReset, now, calls>>

aggVars == <<aIn, aOut>>

vars == <<pipeVars, storeVars, loadVars, rateVars, aggVars>>

(***************************************************************************)
(* Bounds and the finite universes of the model.                           *)
(***************************************************************************)
MaxShas == 2

MaxAddLen == 2

MaxAddCalls == 2

MaxVersion == 4

MaxClock == 14

MaxInFlight == 2

MaxRuns == 2

MaxCrashes == 1

MaxConcurrency == 2

MaxAnswers == 3

Hashes == {"h1", "h2", "h3"}

RepoA == [owner |-> "o", name |-> "a", isPrivate |-> FALSE]

RepoB == [owner |-> "o", name |-> "b", isPrivate |-> TRUE]

SeqsUpTo(S, n) == UNION {[1..k -> S] : k \in 0..n}

\* file changes: path, added lines, removed lines, change kind
File(name, a, d) == [filename |-> name, additions |-> a, deletions |-> d,
                     status |-> "modified"]

FileTs == File(<<"s", "r", "c", "/", "a", ".", "t", "s">>, 10, 2)

FileJson == File(<<"x", ".", "j", "s", "o", "n">>, 5, 0)

FilePy == File(<<"l", ".", "v", "/", "b", ".", "P", "Y">>, 3, 1)

FileLicense == File(<<"d", ".", "t", "s", "/", "L", "I", "C", "E", "N", "S", "E">>, 7, 7)

FileMake == File(<<"M", "a", "k", "e", "f", "i", "l", "e">>, 1, 1)

FileEslint == File(<<".", "e", "s", "l", "i", "n", "t", "r", "c">>, 4, 0)

FileGoEmpty == File(<<"c", ".", "g", "o">>, 0, 0)

FileTs2 == File(<<"t", ".", "d", ".", "t", "s", "x">>, 0, 6)

Detail(sha, date, files) == [kind |-> "detail", sha |-> sha, date |-> date, files |-> files]

\* what the remote holds for each hash
DetailOf ==
    [h \in Hashes |->
        IF h = "h1" THEN Detail(h, [day |-> 1, ms |-> 5], <<FileTs, FileJson>>)
        ELSE IF h = "h2" THEN Detail(h, [day |-> 1, ms |-> 9], <<FilePy, FileLicense, FileTs2>>)
        ELSE Detail(h, ZeroDate, <<FileGoEmpty, FileMake, FileEslint>>)]

Langs == Range(EXT_MAP) \cup Range(FILENAME_MAP)

SampleFiles == {FileTs, FileJson, FilePy, FileLicense, FileMake, FileEslint, FileGoEmpty,
                FileTs2}

\* the detected language of each file of the model
LangOf == [f \in SampleFiles |-> detectLanguage(f.filename)]

NotRun == [kind |-> "none"]

\* the parts of the state a specification does not use, at rest
PipeOff ==
    /\ disk = FileMissing
    /\ cache = emptyCache
    /\ opts = NotRun
    /\ remote = NotRun
    /\ pc = "off"
    /\ reposToProcess = <<>>
    /\ incompleteRepos = <<>>
    /\ ei = 0
    /\ shas = <<>>
    /\ cursor = 0
    /\ workList = <<>>
    /\ wi = 0
    /\ inflight = <<>>
    /\ incompletePRRepos = <<>>
    /\ pj = 0
    /\ prFetched = 0
    /\ result = NotRun
    /\ runs = 0
    /\ crashes = 0
    /\ passTomb = {}
    /\ prev = NotRun
    /\ sent = <<>>
    /\ saveCounter = 0
    /\ events = <<>>
    /\ disc = NotRun

StoreOff ==
    /\ sData = emptyCache
    /\ sLog = <<>>

LoadOff ==
    /\ lFile = FileMissing
    /\ lOut = NotRun

RateOff ==
    /\ rateLimitTotal = 0
    /\ rateLimitRemaining = 0
    /\ rateLimitReset = 0
    /\ now = 0
    /\ calls = <<>>

AggOff ==
    /\ aIn = NotRun
    /\ aOut = NotRun

(***************************************************************************)
(* SpecAgg: aggregate applied to bounded inputs.                           *)
(***************************************************************************)
ExcludeMenu == {<<>>, <<"TypeScript">>, <<"TypeScript", "Python", "Go", "Makefile">>}

AggInputs ==
    [shasA : SeqsUpTo(Hashes, MaxShas),
     shasB : SeqsUpTo(Hashes, MaxShas),
     details : [Hashes -> {"absent", "null", "detail"}],
     excludeLanguages : ExcludeMenu,
     includeCommitDates : BOOLEAN,
     includePRCounts : {TRUE}]

\* the objects handed to aggregate for an input
AggCommitsByRepo(in) ==
    <<[key |-> "o/b", val |-> in.shasB], [key |-> "o/a", val |-> in.shasA]>>

AggCommitDetails(in) ==
    [h \in {x \in Hashes : in.details[x] # "absent"} |->
        IF in.details[h] = "null" THEN NULL ELSE DetailOf[h]]

InitAgg ==
    /\ aIn \in AggInputs
    /\ aOut = NotRun
    /\ PipeOff /\ StoreOff /\ LoadOff /\ RateOff

RunAggregate ==
    /\ aOut = NotRun
    /\ aOut' = aggregate("u", AggCommitsByRepo(aIn), AggCommitDetails(aIn),
                         aIn.excludeLanguages, aIn.includeCommitDates,
                         ("o/a" :> 2), <<RepoA, RepoB>>, aIn.includePRCounts)
    /\ UNCHANGED <<aIn, pipeVars, storeVars, loadVars, rateVars>>

NextAgg == RunAggregate

SpecAgg == InitAgg /\ [][NextAgg]_vars

RECURSIVE SumSeq(_)
SumSeq(s) == IF s = <<>> THEN 0 ELSE Head(s) + SumSeq(Tail(s))

\* a hash with a realized detail: fetched and not a tombstone
Realized(details, sha) == sha \in DOMAIN details /\ details[sha] # NULL

\* additions + deletions over the file changes of one detail whose language is L
DetailLines(detail, L) ==
    SumSeq([j \in DOMAIN detail.files |->
               IF LangOf[detail.files[j]] = L
               THEN detail.files[j].additions + detail.files[j].deletions
               ELSE 0])

\* the same over the realized commits of one SHA list
ListLines(list, details, L) ==
    SumSeq([i \in DOMAIN list |->
               IF Realized(details, list[i]) THEN DetailLines(details[list[i]], L) ELSE 0])

\* some file change of a realized commit of the list has language L
ListHas(list, details, L) ==
    \E i \in DOMAIN list :
        /\ Realized(details, list[i])
        /\ \E j \in DOMAIN details[list[i]].files :
               LangOf[details[list[i]].files[j]] = L

\* L is neither default-excluded nor named by the caller
Counted(L, excludeLanguages) ==
    L # NoLang /\ L \notin EXCLUDED_LANGUAGES /\ ~Includes(excludeLanguages, L)

UniqueKeys(m) == \A i, j \in DOMAIN m : m[i].key = m[j].key => i = j

OmAt(m, k) == IF OmHas(m, k) THEN OmGet(m, k) ELSE 0

RepoLangsAt(byRepo, r) ==
    IF OmHas(byRepo, r) THEN OmGet(byRepo, r).contributionsCountPerLanguage ELSE <<>>

\* the languages of an ordered map, over all entries of byRepo
ByRepoLangs(byRepo) ==
    UNION {OmKeys(byRepo[i].val.contributionsCountPerLanguage) : i \in DOMAIN byRepo}

\* the languages some file of the model is detected as
FileLangs == Range(LangOf) \ {NoLang}

\* C9 (aggregation correctness): for every language L that is not excluded,
\* totals[L] is the sum of additions + deletions over the file changes of
\* language L of every realized commit of every repository's SHA list, and
\* byRepo[r][L] is that sum over repository r's list alone; tombstoned and
\* unfetched hashes add nothing.
AggregationCorrect ==
    aOut # NotRun =>
        LET cbr     == AggCommitsByRepo(aIn)
            details == AggCommitDetails(aIn)
        IN  /\ UniqueKeys(aOut.totals)
            /\ UniqueKeys(aOut.byRepo)
            /\ OmKeys(aOut.totals) \cup ByRepoLangs(aOut.byRepo) \subseteq FileLangs
            /\ \A L \in FileLangs :
                   Counted(L, aIn.excludeLanguages) =>
                       /\ OmAt(aOut.totals, L) =
                              SumSeq([e \in DOMAIN cbr |-> ListLines(cbr[e].val, details, L)])
                       /\ \A e \in DOMAIN cbr :
                              /\ UniqueKeys(RepoLangsAt(aOut.byRepo, cbr[e].key))
                              /\ OmAt(RepoLangsAt(aOut.byRepo, cbr[e].key), L) =
                                     ListLines(cbr[e].val, details, L)

\* a run of aggregate over a list that holds a realized commit, a tombstone
\* and an unfetched hash, with TypeScript lines counted in both repositories
AggregationCorrectWitness ==
    /\ aOut # NotRun
    /\ aIn.shasA = <<"h1", "h2">>
    /\ aIn.shasB = <<"h3", "h1">>
    /\ aIn.details = [h \in Hashes |-> IF h = "h1" THEN "detail"
                                        ELSE IF h = "h2" THEN "null" ELSE "absent"]
    /\ OmAt(aOut.totals, "TypeScript") = 24
    /\ OmAt(RepoLangsAt(aOut.byRepo, "o/a"), "TypeScript") = 12

\* the languages detected in the realized commits handed to aggregate
InputLangs(in) ==
    {L \in FileLangs : \E e \in DOMAIN AggCommitsByRepo(in) :
                       ListHas(AggCommitsByRepo(in)[e].val, AggCommitDetails(in), L)}

\* C10 (exclusion composition): no default-excluded language and no language
\* of excludeLanguages is a key of totals or of a byRepo entry, and when every
\* language of the input is excluded totals and byRepo are empty.
ExclusionComposition ==
    aOut # NotRun =>
        /\ \A L \in EXCLUDED_LANGUAGES \cup Range(aIn.excludeLanguages) :
               L \notin OmKeys(aOut.totals) /\ L \notin ByRepoLangs(aOut.byRepo)
        /\ (InputLangs(aIn) \subseteq EXCLUDED_LANGUAGES \cup Range(aIn.excludeLanguages))
               => (aOut.totals = <<>> /\ aOut.byRepo = <<>>)

\* TypeScript, JSON and Python lines are in the input, TypeScript is excluded
\* by the caller and JSON by default: only Python is reported
ExclusionCompositionWitness ==
    /\ aOut # NotRun
    /\ aIn.excludeLanguages = <<"TypeScript">>
    /\ {"TypeScript", "JSON", "Python"} \subseteq InputLangs(aIn)
    /\ OmKeys(aOut.totals) = {"Python"}

(***************************************************************************)
(* SpecStore: a CacheStore under a bounded sequence of addCommits calls.   *)
(* sLog records each call: the repository, the list passed, and the        *)
(* repository's stored list before and after.                              *)
(***************************************************************************)
StoreKeys == {"o/a", "o/b"}

\* the list stored for o/a when the calls begin
StoredLists == {<<>>, <<"h3", "h1">>}

InitStore ==
    /\ \E E \in StoredLists :
           sData = IF E = <<>> THEN emptyCache
                   ELSE [emptyCache EXCEPT !.commitsByRepo = MapPut(@, "o/a", E)]
    /\ sLog = <<>>
    /\ PipeOff /\ LoadOff /\ RateOff /\ AggOff

AddCommits(key, list) ==
    /\ Len(sLog) < MaxAddCalls
    /\ sData' = addCommits(sData, key, list)
    /\ sLog' = Append(sLog, [key |-> key, shas |-> list,
                             before |-> getCommits(sData, key),
                             after |-> getCommits(sData', key)])
    /\ UNCHANGED <<pipeVars, loadVars, rateVars, aggVars>>

NextStore == \E key \in StoreKeys, list \in SeqsUpTo(Hashes, MaxAddLen) : AddCommits(key, list)

SpecStore == InitStore /\ [][NextStore]_vars

\* the elements of list that are not in the set S, in list's order
Without(list, S) == SelectSeq(list, LAMBDA s : s \notin S)

\* two calls in a row for the same repository
Consecutive(i) == i + 1 \in DOMAIN sLog /\ sLog[i].key = sLog[i + 1].key

\* C4 (merge result): addCommits(repo, X) then addCommits(repo, Y) on a stored
\* list E leaves E, then the hashes of X not in E in X's order, then the
\* hashes of Y in neither E nor X in Y's order; [a,b] then [b,c] on an empty
\* list gives [a,b,c]; repeating a call changes nothing.
MergeResult ==
    \A i \in DOMAIN sLog :
        Consecutive(i) =>
            LET E == sLog[i].before
                X == sLog[i].shas
                Y == sLog[i + 1].shas
            IN  /\ sLog[i + 1].after =
                       E \o Without(X, Range(E)) \o Without(Y, Range(E) \cup Range(X))
                /\ getCommits(sData, sLog[Len(sLog)].key) = sLog[Len(sLog)].after
                /\ (E = <<>> /\ X = <<"h1", "h2">> /\ Y = <<"h2", "h3">>)
                       => sLog[i + 1].after = <<"h1", "h2", "h3">>
                /\ X = Y => sLog[i + 1].after = sLog[i].after

\* addCommits(o/a, [h1,h2]) then addCommits(o/a, [h2,h3]) on an empty list
MergeResultWitness ==
    /\ Len(sLog) = 2
    /\ sLog[1].key = "o/a" /\ sLog[2].key = "o/a"
    /\ sLog[1].before = <<>>
    /\ sLog[1].shas = <<"h1", "h2">>
    /\ sLog[2].shas = <<"h2", "h3">>
    /\ getCommits(sData, "o/a") = <<"h1", "h2", "h3">>

NoDup(list) == \A i, j \in DOMAIN list : list[i] = list[j] => i = j

\* C5 (no duplicate hashes): after any sequence of addCommits calls, with
\* lists that may repeat a hash, every repository's stored list holds each
\* hash at most once.
NoDuplicateHashes ==
    \A key \in DOMAIN sData.commitsByRepo : NoDup(sData.commitsByRepo[key])

(***************************************************************************)
(* SpecLoad: a CacheStore constructed from a file.                         *)
(***************************************************************************)
\* stores a file can hold, of any schema version or with none
StoredDocs ==
    {[version          |-> v,
      repos            |-> r,
      completedRepos   |-> c,
      commitsByRepo    |-> s,
      commitDetails    |-> d,
      prCountByRepo    |-> p,
      completedPRRepos |-> q] :
        v \in 0..MaxVersion,
        r \in {<<>>, <<RepoA>>},
        c \in {<<>>, <<"o/a">>},
        s \in {EmptyMap, ("o/a" :> <<"h1", "h2">>)},
        d \in {EmptyMap, ("h1" :> NULL), ("h1" :> DetailOf["h1"]) @@ ("h2" :> NULL)},
        p \in {EmptyMap, ("o/a" :> 2)},
        q \in {<<>>, <<"o/a">>}}

\* the same documents without a version field
Unversioned(doc) == [k \in (DOMAIN doc) \ {"version"} |-> doc[k]]

Files ==
    {FileMissing, FileUnreadable, FileGarbage, JsonFile(NULL)}
    \cup {JsonFile(doc) : doc \in StoredDocs}
    \cup {JsonFile(Unversioned(doc)) : doc \in StoredDocs}

InitLoad ==
    /\ lFile \in Files
    /\ lOut = NotRun
    /\ PipeOff /\ StoreOff /\ RateOff /\ AggOff

\* new CacheStore(path)
Construct ==
    /\ lOut = NotRun
    /\ lOut' = load(lFile)
    /\ UNCHANGED <<lFile, pipeVars, storeVars, rateVars, aggVars>>

NextLoad == Construct

SpecLoad == InitLoad /\ [][NextLoad]_vars

\* the file is not a readable store of the current schema version
Unusable(file) ==
    \/ file.kind # "json"
    \/ file.doc = NULL
    \/ "version" \notin DOMAIN file.doc
    \/ file.doc.version # CACHE_VERSION

\* C6 (cache integrity): constructing the store from a missing, unreadable or
\* unparseable file, or one of another schema version, never throws and gives
\* the empty store, with nothing of the old content.
CacheIntegrity ==
    lOut # NotRun =>
        /\ ~lOut.threw
        /\ Unusable(lFile) =>
               /\ lOut.data = emptyCache
               /\ lOut.data.repos = <<>>
               /\ lOut.data.completedRepos = <<>>
               /\ DOMAIN lOut.data.commitsByRepo = {}
               /\ DOMAIN lOut.data.commitDetails = {}
               /\ DOMAIN lOut.data.prCountByRepo = {}
               /\ lOut.data.completedPRRepos = <<>>

\* a store built from a version 2 file that held a repository and details
CacheIntegrityWitness ==
    /\ lOut # NotRun
    /\ lFile.kind = "json"
    /\ lFile.doc # NULL
    /\ "version" \in DOMAIN lFile.doc
    /\ lFile.doc.version = 2
    /\ lFile.doc.repos = <<RepoA>>
    /\ DOMAIN lFile.doc.commitDetails = {"h1", "h2"}
    /\ lOut.data = emptyCache

(***************************************************************************)
(* SpecRate: the client's rate state (github-client.ts).  Time is in       *)
(* seconds.  A call is one request of the client: it passes throttle() as  *)
(* often as its code path does, is dispatched, and its response's headers  *)
(* are recorded.                                                           *)
(***************************************************************************)
RATE_LIMIT_RESERVE == 100

INITIAL_RATE_LIMIT == 5000

SAFETY_MARGIN == 5

MIN_WAIT == 5

\* the requests of the client and the throttle() calls before each is sent:
\* graphql() (line 73); a history page of collectCommitShas (lines 280, 73);
\* a page of discoverReposViaRest (none); fetchCommitDetail (line 334);
\* fetchPRCount (line 392)
ThrottleCount ==
    ("graphql" :> 1) @@ ("history" :> 2) @@ ("listing" :> 0) @@ ("detail" :> 1)
    @@ ("prcount" :> 1)

CallKinds == DOMAIN ThrottleCount

CallIdle == [st |-> "idle"]

\* Math.max(this.rateLimitReset - now + 5, 5)
waitSeconds(reset, t) == Max(reset - t + SAFETY_MARGIN, MIN_WAIT)

\* a call runs until it sleeps in throttle() or its request is sent
RECURSIVE Proceed(_, _, _, _)
Proceed(c, remaining, reset, t) ==
    IF c.throttles = 0
    THEN [c EXCEPT !.st = "sent", !.dispatchedAt = t]
    ELSE IF remaining <= RATE_LIMIT_RESERVE
    THEN [c EXCEPT !.st = "sleeping", !.throttles = @ - 1,
                   !.wakeAt = t + waitSeconds(reset, t)]
    ELSE Proceed([c EXCEPT !.throttles = @ - 1], remaining, reset, t)

\* the clock when the client is created: the initial tracked reset time, 0,
\* is long past
StartClock == SAFETY_MARGIN + 1

HeaderAbsent == [present |-> FALSE]

Header(n) == [present |-> TRUE, value |-> n]

\* the rate-limit headers of a response
HeaderSets ==
    [limit     : {HeaderAbsent, Header(60)},
     remaining : {HeaderAbsent, Header(RATE_LIMIT_RESERVE), Header(RATE_LIMIT_RESERVE + 1)},
     reset     : {HeaderAbsent, Header(StartClock + 2)}]

InitRate ==
    /\ rateLimitTotal = INITIAL_RATE_LIMIT
    /\ rateLimitRemaining = INITIAL_RATE_LIMIT
    /\ rateLimitReset = 0
    /\ now = StartClock
    /\ calls = [id \in 1..MaxInFlight |-> CallIdle]
    /\ PipeOff /\ StoreOff /\ LoadOff /\ AggOff

\* a call of the client begins
Begin(id, kind) ==
    /\ calls[id].st = "idle"
    /\ calls' = [calls EXCEPT ![id] =
                    Proceed([st |-> "new", kind |-> kind,
                             throttles |-> ThrottleCount[kind],
                             startRemaining |-> rateLimitRemaining,
                             startReset |-> rateLimitReset,
                             wakeAt |-> now, dispatchedAt |-> now],
                            rateLimitRemaining, rateLimitReset, now)]
    /\ UNCHANGED <<rateLimitTotal, rateLimitRemaining, rateLimitReset, now>>
    /\ UNCHANGED <<pipeVars, storeVars, loadVars, aggVars>>

\* the timer of sleep() fires
Wake(id) ==
    /\ calls[id].st = "sleeping"
    /\ now >= calls[id].wakeAt
    /\ calls' = [calls EXCEPT ![id] =
                    Proceed(calls[id], rateLimitRemaining, rateLimitReset, now)]
    /\ UNCHANGED <<rateLimitTotal, rateLimitRemaining, rateLimitReset, now>>
    /\ UNCHANGED <<pipeVars, storeVars, loadVars, aggVars>>

\* the tracked rate state as one value
Tracked == [total |-> rateLimitTotal, remaining |-> rateLimitRemaining,
            reset |-> rateLimitReset]

\* a recording that never raises the tracked remaining count
updateRateLimitLowest(t, h) ==
    [total     |-> IF h.limit.present THEN h.limit.value ELSE t.total,
     remaining |-> IF h.remaining.present THEN Min(t.remaining, h.remaining.value)
                   ELSE t.remaining,
     reset     |-> IF h.reset.present THEN h.reset.value ELSE t.reset]

\* lines 29-36: each header that is there replaces the field it is for
updateRateLimitFromHeaders(t, h) ==
    [total     |-> IF h.limit.present THEN h.limit.value ELSE t.total,
     remaining |-> IF h.remaining.present THEN h.remaining.value ELSE t.remaining,
     reset     |-> IF h.reset.present THEN h.reset.value ELSE t.reset]

\* the response arrives: updateRateLimitFromHeaders
Respond(id, h) ==
    /\ calls[id].st = "sent"
    /\ rateLimitTotal' = updateRateLimitFromHeaders(Tracked, h).total
    /\ rateLimitRemaining' = updateRateLimitFromHeaders(Tracked, h).remaining
    /\ rateLimitReset' = updateRateLimitFromHeaders(Tracked, h).reset
    /\ calls' = [calls EXCEPT ![id] = CallIdle]
    /\ UNCHANGED now
    /\ UNCHANGED <<pipeVars, storeVars, loadVars, aggVars>>

Tick ==
    /\ now < MaxClock
    /\ now' = now + 1
    /\ UNCHANGED <<rateLimitTotal, rateLimitRemaining, rateLimitReset, calls>>
    /\ UNCHANGED <<pipeVars, storeVars, loadVars, aggVars>>

NextRate ==
    \/ \E id \in 1..MaxInFlight, kind \in CallKinds : Begin(id, kind)
    \/ \E id \in 1..MaxInFlight : Wake(id)
    \/ \E id \in 1..MaxInFlight, h \in HeaderSets : Respond(id, h)
    \/ Tick

SpecRate == InitRate /\ [][NextRate]_vars

\* C7 (rate gate): a request of any kind whose call began with the tracked
\* remaining count at or below the reserve is not dispatched before the clock
\* reaches the tracked reset time + 5 seconds.
RateGate ==
    \A id \in DOMAIN calls :
        (calls[id].st = "sent" /\ calls[id].startRemaining <= RATE_LIMIT_RESERVE)
            => calls[id].dispatchedAt >= calls[id].startReset + SAFETY_MARGIN


\* the requests of the search domain; every other request is of the bulk domain
SearchKinds == {"prcount"}

\* C23 (independent rate domains): the response to a request of the search
\* domain (fetchPRCount) leaves the ceiling, the remaining count and the
\* reset time tracked for the bulk domain as they were, so no headroom check
\* of a bulk request waits on values a search response carried.
IndependentDomains ==
    [][\A id \in DOMAIN calls :
           (/\ calls[id].st = "sent"
            /\ calls[id].kind \in SearchKinds
            /\ calls'[id].st = "idle")
               => UNCHANGED <<rateLimitTotal, rateLimitRemaining, rateLimitReset>>]_vars

\* a bulk request sleeps in throttle() while a search request is in flight
\* or has been answered: the tracked count it read is at or below the reserve
IndependentDomainsWitness ==
    \E id \in DOMAIN calls, jd \in DOMAIN calls :
        /\ calls[id].st = "sent"
        /\ calls[id].kind \in SearchKinds
        /\ calls[jd].st = "sleeping"
        /\ calls[jd].kind \notin SearchKinds

(***************************************************************************)
(* SpecRecord: the rate state under a sequence of responses of any request *)
(* and status.  calls holds the last response and the rate state it met.   *)
(***************************************************************************)
ResponseStatuses == {200, 500}

ResponseHeaders ==
    [limit     : {HeaderAbsent, Header(60)},
     remaining : {HeaderAbsent, Header(59), Header(INITIAL_RATE_LIMIT - 1)},
     reset     : {HeaderAbsent, Header(100)}]

InitRecord ==
    /\ rateLimitTotal = INITIAL_RATE_LIMIT
    /\ rateLimitRemaining = INITIAL_RATE_LIMIT
    /\ rateLimitReset = 0
    /\ now = 0
    /\ calls = <<>>
    /\ PipeOff /\ StoreOff /\ LoadOff /\ AggOff

\* lines 79, 109, 337, 397: the response of a request is recorded, before
\* its status is looked at
RecordResponse(kind, status, h) ==
    /\ rateLimitTotal' = updateRateLimitFromHeaders(Tracked, h).total
    /\ rateLimitRemaining' = updateRateLimitFromHeaders(Tracked, h).remaining
    /\ rateLimitReset' = updateRateLimitFromHeaders(Tracked, h).reset
    /\ calls' = <<[kind |-> kind, status |-> status, headers |-> h, before |-> Tracked]>>
    /\ UNCHANGED now
    /\ UNCHANGED <<pipeVars, storeVars, loadVars, aggVars>>

NextRecord ==
    \E kind \in CallKinds, status \in ResponseStatuses, h \in ResponseHeaders :
        RecordResponse(kind, status, h)

SpecRecord == InitRecord /\ [][NextRecord]_vars

\* C36 as stated: after a response, the tracked ceiling, remaining count and
\* reset time are the values that response carried, for every response
RateOverwritten ==
    calls # <<>>
        => LET h == calls[1].headers
           IN  /\ h.limit.present /\ rateLimitTotal = h.limit.value
               /\ h.remaining.present /\ rateLimitRemaining = h.remaining.value
               /\ h.reset.present /\ rateLimitReset = h.reset.value

\* C36 (rate-state recording): after a response of any request and any
\* status, each tracked field whose header the response carried has the
\* value of that header, whatever was tracked before, and each field whose
\* header it lacked has the value tracked before.
RateRecording ==
    calls # <<>>
        => LET h == calls[1].headers
               b == calls[1].before
           IN  /\ rateLimitTotal = IF h.limit.present THEN h.limit.value ELSE b.total
               /\ rateLimitRemaining
                      = IF h.remaining.present THEN h.remaining.value ELSE b.remaining
               /\ rateLimitReset = IF h.reset.present THEN h.reset.value ELSE b.reset

\* C36 happens: an error response raised the tracked remaining count and
\* carried no reset header, the reset tracked before being other than the
\* initial one
RateRecordingWitness ==
    /\ calls # <<>>
    /\ calls[1].status = 500
    /\ calls[1].headers.remaining.present
    /\ calls[1].headers.remaining.value > calls[1].before.remaining
    /\ ~calls[1].headers.reset.present
    /\ calls[1].before.reset # 0

(***************************************************************************)
(* The remote.  It answers every query the same way each time:             *)
(*   repos    the repositories discovery returns                           *)
(*   history  per repository, the answers to the history pages in cursor   *)
(*            order: a page of hashes, or a failed query                   *)
(*   detail   per repository and hash, the status of GET .../commits/:sha  *)
(*   pr       per repository, the answer of the PR search                  *)
(***************************************************************************)
PipeKeys == {"o/a", "o/b"}

PipeHashes == {"h1", "h2"}

Page(nodes, more) == [kind |-> "page", nodes |-> nodes, hasNextPage |-> more]

PageError == [kind |-> "error"]

HistoryMenu ==
    {<<Page(<<>>, FALSE)>>,
     <<Page(<<"h1">>, FALSE)>>,
     <<Page(<<"h2">>, FALSE)>>,
     <<Page(<<"h1">>, TRUE), Page(<<"h2">>, FALSE)>>,
     <<Page(<<"h1">>, TRUE), PageError>>}

DetailStatuses == {"200", "404", "500"}

PROk(n) == [kind |-> "ok", count |-> n]

PRError == [kind |-> "error"]

PRMenu == {PROk(2), PRError}

\* the hashes a history lists
Listed(hist) ==
    UNION {IF hist[i].kind = "page" THEN Range(hist[i].nodes) ELSE {} : i \in DOMAIN hist}

NoFilter == [set |-> FALSE]

Filter(keys) == [set |-> TRUE, keys |-> keys]

Options ==
    [user : {"u"},
     useCache : BOOLEAN,
     concurrency : 1..MaxConcurrency,
     repoFilter : {NoFilter, Filter(<<"o/a">>)},
     includePRCounts : {TRUE},
     includeCommitDates : {TRUE},
     excludeLanguages : {<<>>}]

\* the remotes of the model; what no run asks for is held fixed
Remotes(o) ==
    {r \in [repos   : {<<RepoA, RepoB>>},
            history : [PipeKeys -> HistoryMenu],
            detail  : [PipeKeys -> [PipeHashes -> DetailStatuses]],
            pr      : [PipeKeys -> PRMenu]] :
        /\ \A k \in PipeKeys, h \in PipeHashes :
               h \notin Listed(r.history[k]) => r.detail[k][h] = "404"
        /\ \A k \in PipeKeys :
               (o.repoFilter.set /\ ~Includes(o.repoFilter.keys, k))
                   => (r.history[k] = <<Page(<<>>, FALSE)>> /\ r.pr[k] = PRError)}

(***************************************************************************)
(* The client's operations as the pipeline sees them.                      *)
(***************************************************************************)
\* fetchCommitDetail settled: fulfilled with a detail, fulfilled with null
\* (404/422), or rejected (another status)
fetchCommitDetail(rem, key, sha) ==
    LET status == rem.detail[key][sha]
    IN  IF status = "200" THEN [status |-> "fulfilled", value |-> DetailOf[sha]]
        ELSE IF status = "404" THEN [status |-> "fulfilled", value |-> NULL]
        ELSE [status |-> "rejected"]

\* fetchPRCount: the count, or a throw
fetchPRCount(rem, key) == rem.pr[key]

\* the answer to the history query of a repository at a cursor (0 is null)
historyPage(rem, key, cur) == rem.history[key][cur + 1]

(***************************************************************************)
(* getGithubLangStats, step by step.                                       *)
(***************************************************************************)
\* lines 208-210
ReposToProcess(data, o) ==
    IF o.repoFilter.set
    THEN SelectSeq(data.repos, LAMBDA r : Includes(o.repoFilter.keys, repoKey(r)))
    ELSE data.repos

\* a pass that enumerates every repository it processes:
\* EnumerationMonotonic fails of it
IncompleteReposAll(data, rtp) == rtp

\* lines 214-216
IncompleteRepos(data, rtp) ==
    SelectSeq(rtp, LAMBDA r : ~isRepoComplete(data, repoKey(r)))

\* lines 244-252: the work of one repository, then of all
RepoWork(data, r) ==
    LET list == getCommits(data, repoKey(r))
        todo == SelectSeq(list, LAMBDA sha : ~hasCommitDetail(data, sha))
    IN  [i \in DOMAIN todo |-> [owner |-> r.owner, repo |-> r.name, sha |-> todo[i]]]

RECURSIVE WorkList(_, _)
WorkList(data, rtp) ==
    IF rtp = <<>> THEN <<>> ELSE RepoWork(data, Head(rtp)) \o WorkList(data, Tail(rtp))

\* workList.slice(i, i + concurrency)
Slice(list, i, n) == SubSeq(list, i + 1, Min(i + n, Len(list)))

\* a batch that is lost whole when one of its fetches is rejected, as under
\* Promise.all: BatchIsolation fails of it
RecordBatchAll(data, batch, results) ==
    IF \E j \in DOMAIN results : results[j].status = "rejected"
    THEN data
    ELSE [data EXCEPT !.commitDetails =
             [h \in DOMAIN @ \cup {batch[j].sha : j \in DOMAIN batch} |->
                 IF \E j \in DOMAIN batch : batch[j].sha = h
                 THEN results[CHOOSE j \in DOMAIN batch :
                                  batch[j].sha = h
                                  /\ \A k \in DOMAIN batch : batch[k].sha = h => k <= j].value
                 ELSE @[h]]]

\* lines 262-270: the results of a batch recorded in order
RECURSIVE RecordBatch(_, _, _)
RecordBatch(data, batch, results) ==
    IF batch = <<>> THEN data
    ELSE RecordBatch(
             setCommitDetail(data, Head(batch).sha,
                             IF Head(results).status = "fulfilled"
                             THEN Head(results).value ELSE NULL),
             Tail(batch), Tail(results))

\* lines 278-280
IncompletePRRepos(data, rtp) ==
    SelectSeq(rtp, LAMBDA r : ~isRepoPRComplete(data, repoKey(r)))

\* lines 312-316
RECURSIVE FilteredCommitsByRepo(_, _)
FilteredCommitsByRepo(data, rtp) ==
    IF rtp = <<>> THEN <<>>
    ELSE OmSet(FilteredCommitsByRepo(data, SubSeq(rtp, 1, Len(rtp) - 1)),
               repoKey(rtp[Len(rtp)]), getCommits(data, repoKey(rtp[Len(rtp)])))

\* lines 317-328
Stats(data, rtp, o) ==
    aggregate(o.user, FilteredCommitsByRepo(data, rtp), data.commitDetails,
              o.excludeLanguages, o.includeCommitDates, data.prCountByRepo, rtp,
              o.includePRCounts)

\* if (useCache) cache.save()
Saved(o, data, file) == IF o.useCache THEN save(data) ELSE file

InitPipe ==
    /\ opts \in Options
    /\ remote \in Remotes(opts)
    /\ disk = FileMissing
    /\ cache = emptyCache
    /\ pc = "idle"
    /\ reposToProcess = <<>>
    /\ incompleteRepos = <<>>
    /\ ei = 0
    /\ shas = <<>>
    /\ cursor = 0
    /\ workList = <<>>
    /\ wi = 0
    /\ inflight = <<>>
    /\ incompletePRRepos = <<>>
    /\ pj = 0
    /\ prFetched = 0
    /\ result = NotRun
    /\ runs = 0
    /\ crashes = 0
    /\ passTomb = {}
    /\ prev = NotRun
    /\ sent = <<>>
    /\ saveCounter = 0
    /\ events = <<>>
    /\ disc = NotRun
    /\ StoreOff /\ LoadOff /\ RateOff /\ AggOff

Init == InitPipe

\* what a step of the pipeline that issues requests leaves alone, and what a
\* step that issues none leaves alone
restVars == <<storeVars, loadVars, rateVars, aggVars, saveCounter, events, disc>>

otherVars == <<restVars, sent>>

locals == <<reposToProcess, incompleteRepos, ei, shas, cursor, workList, wi,
            incompletePRRepos, pj, prFetched>>

LocalsReset ==
    /\ reposToProcess' = <<>>
    /\ incompleteRepos' = <<>>
    /\ ei' = 0
    /\ shas' = <<>>
    /\ cursor' = 0
    /\ workList' = <<>>
    /\ wi' = 0
    /\ incompletePRRepos' = <<>>
    /\ pj' = 0
    /\ prFetched' = 0

\* lines 157-188: a pass begins; new CacheStore(cPath) loads the file
StartRun ==
    /\ pc \in {"idle", "done"}
    /\ runs < MaxRuns
    /\ runs' = runs + 1
    /\ cache' = load(disk).data
    /\ passTomb' = {h \in DOMAIN cache'.commitDetails : cache'.commitDetails[h] = NULL}
    /\ prev' = IF pc = "done" THEN [kind |-> "done", result |-> result, disk |-> disk, sent |-> sent]
               ELSE NotRun
    /\ result' = NotRun
    /\ pc' = "phase1"
    /\ LocalsReset
    /\ sent' = <<>>
    /\ UNCHANGED <<disk, opts, remote, inflight, crashes, restVars>>

\* lines 192-206, no repository cached: discovery, then the list is stored
Discover ==
    /\ pc = "phase1"
    /\ Len(cache.repos) = 0
    /\ cache' = [cache EXCEPT !.repos = remote.repos]
    /\ disk' = Saved(opts, cache', disk)
    /\ pc' = "phase2"
    /\ sent' = Append(sent, [kind |-> "discover", user |-> opts.user])
    /\ UNCHANGED <<opts, remote, locals, inflight, result, runs, crashes, passTomb, prev,
                   restVars>>

\* line 192, repositories cached: discovery is skipped
SkipDiscover ==
    /\ pc = "phase1"
    /\ Len(cache.repos) # 0
    /\ pc' = "phase2"
    /\ UNCHANGED <<disk, cache, opts, remote, locals, inflight, result, runs, crashes,
                   passTomb, prev, otherVars>>

\* lines 208-221: the repositories to process and those to enumerate
BeginEnumerate ==
    /\ pc = "phase2"
    /\ reposToProcess' = ReposToProcess(cache, opts)
    /\ incompleteRepos' = IncompleteRepos(cache, reposToProcess')
    /\ ei' = 1
    /\ pc' = IF Len(incompleteRepos') > 0 THEN "enum" ELSE "phase3"
    /\ UNCHANGED <<disk, cache, opts, remote, shas, cursor, workList, wi, inflight,
                   incompletePRRepos, pj, prFetched, result, runs, crashes, passTomb,
                   prev, otherVars>>

\* collectCommitShas, lines 279-300: the query of one history page is sent
EnumDispatch ==
    /\ pc = "enum"
    /\ inflight' = <<[kind |-> "history", key |-> repoKey(incompleteRepos[ei]),
                      cursor |-> cursor]>>
    /\ pc' = "enumWait"
    /\ sent' = sent \o inflight'
    /\ UNCHANGED <<disk, cache, opts, remote, locals, result, runs, crashes, passTomb,
                   prev, restVars>>

\* collectCommitShas returned list: lines 235-237, then the next repository
EnumFinish(list) ==
    LET key == repoKey(incompleteRepos[ei])
    IN  /\ cache' = markRepoComplete(addCommits(cache, key, list), key)
        /\ disk' = Saved(opts, cache', disk)
        /\ ei' = ei + 1
        /\ shas' = <<>>
        /\ cursor' = 0
        /\ pc' = IF ei < Len(incompleteRepos) THEN "enum" ELSE "phase3"

\* lines 302-319: the page arrives; more pages, the last page, or an error
EnumRespond ==
    /\ pc = "enumWait"
    /\ inflight' = <<>>
    /\ LET resp == historyPage(remote, repoKey(incompleteRepos[ei]), cursor)
       IN  IF resp.kind = "page" /\ resp.hasNextPage
           THEN /\ shas' = shas \o resp.nodes
                /\ cursor' = cursor + 1
                /\ pc' = "enum"
                /\ UNCHANGED <<disk, cache, ei>>
           ELSE IF resp.kind = "page"
           THEN EnumFinish(shas \o resp.nodes)
           ELSE EnumFinish(shas)
    /\ UNCHANGED <<opts, remote, reposToProcess, incompleteRepos, workList, wi,
                   incompletePRRepos, pj, prFetched, result, runs, crashes, passTomb,
                   prev, otherVars>>

\* lines 243-254: the work list of the pass
BeginDetails ==
    /\ pc = "phase3"
    /\ workList' = WorkList(cache, reposToProcess)
    /\ wi' = 0
    /\ pc' = "batch"
    /\ UNCHANGED <<disk, cache, opts, remote, reposToProcess, incompleteRepos, ei, shas,
                   cursor, inflight, incompletePRRepos, pj, prFetched, result, runs,
                   crashes, passTomb, prev, otherVars>>

\* lines 255-261: the requests of one batch are sent
BatchDispatch ==
    /\ pc = "batch"
    /\ wi < Len(workList)
    /\ LET batch == Slice(workList, wi, opts.concurrency)
           reqs  == [j \in DOMAIN batch |->
                        [kind |-> "detail",
                         key  |-> batch[j].owner \o "/" \o batch[j].repo,
                         sha  |-> batch[j].sha]]
       IN  /\ inflight' = inflight \o
                           [j \in DOMAIN reqs |->
                               [kind |-> "detail", key |-> reqs[j].key,
                                sha |-> reqs[j].sha, settled |-> FALSE]]
           /\ sent' = sent \o reqs
    /\ pc' = "batchWait"
    /\ UNCHANGED <<disk, cache, opts, remote, locals, result, runs, crashes, passTomb,
                   prev, restVars>>

\* line 257: the promise of one fetchCommitDetail call settles
DetailSettle(j) ==
    /\ pc = "batchWait"
    /\ j \in DOMAIN inflight
    /\ ~inflight[j].settled
    /\ inflight' = [inflight EXCEPT ![j].settled = TRUE]
    /\ UNCHANGED <<disk, cache, opts, remote, pc, locals, result, runs, crashes, passTomb,
                   prev, otherVars>>

\* a batch that resumes as soon as one of its requests has settled, as under
\* Promise.race: Backpressure fails of it
AnySettled(reqs) == \E j \in DOMAIN reqs : reqs[j].settled

\* Promise.allSettled (line 257) resolves when every request has settled
AllSettled(reqs) == \A j \in DOMAIN reqs : reqs[j].settled

\* lines 257-273: Promise.allSettled has resolved; the results are recorded
BatchSettle ==
    /\ pc = "batchWait"
    /\ AllSettled(inflight)
    /\ LET batch   == Slice(workList, wi, opts.concurrency)
           results == [j \in DOMAIN batch |->
                          fetchCommitDetail(remote,
                                            batch[j].owner \o "/" \o batch[j].repo,
                                            batch[j].sha)]
       IN  cache' = RecordBatch(cache, batch, results)
    /\ disk' = Saved(opts, cache', disk)
    /\ wi' = wi + opts.concurrency
    /\ inflight' = SelectSeq(inflight, LAMBDA r : ~r.settled)
    /\ pc' = "batch"
    /\ UNCHANGED <<opts, remote, reposToProcess, incompleteRepos, ei, shas, cursor,
                   workList, incompletePRRepos, pj, prFetched, result, runs, crashes,
                   passTomb, prev, otherVars>>

\* lines 277-283: the loop of line 255 has ended; the repositories whose PR
\* count is missing
BeginPRCounts ==
    /\ pc = "batch"
    /\ wi >= Len(workList)
    /\ incompletePRRepos' = IF opts.includePRCounts
                            THEN IncompletePRRepos(cache, reposToProcess) ELSE <<>>
    /\ pj' = 1
    /\ prFetched' = 0
    /\ pc' = IF Len(incompletePRRepos') > 0 THEN "pr" ELSE "aggregate"
    /\ UNCHANGED <<disk, cache, opts, remote, reposToProcess, incompleteRepos, ei, shas,
                   cursor, workList, wi, inflight, result, runs, crashes, passTomb,
                   prev, otherVars>>

\* line 286: the PR search of one repository is sent
PRDispatch ==
    /\ pc = "pr"
    /\ inflight' = <<[kind |-> "prcount", key |-> repoKey(incompletePRRepos[pj])]>>
    /\ pc' = "prWait"
    /\ sent' = sent \o inflight'
    /\ UNCHANGED <<disk, cache, opts, remote, locals, result, runs, crashes, passTomb,
                   prev, restVars>>

\* lines 287-303: the count is stored and saved, or the failure swallowed
PRRespond ==
    /\ pc = "prWait"
    /\ LET key  == repoKey(incompletePRRepos[pj])
           resp == fetchPRCount(remote, key)
       IN  IF resp.kind = "ok"
           THEN /\ cache' = markRepoPRComplete(setPRCount(cache, key, resp.count), key)
                /\ prFetched' = prFetched + 1
                /\ disk' = Saved(opts, cache', disk)
           ELSE /\ cache' = markRepoPRComplete(cache, key)
                /\ UNCHANGED <<prFetched, disk>>
    /\ pj' = pj + 1
    /\ inflight' = <<>>
    /\ pc' = IF pj < Len(incompletePRRepos) THEN "pr" ELSE "aggregate"
    /\ UNCHANGED <<opts, remote, reposToProcess, incompleteRepos, ei, shas, cursor,
                   workList, wi, incompletePRRepos, result, runs, crashes, passTomb,
                   prev, otherVars>>

\* lines 310-328: the result is computed and returned
Aggregate ==
    /\ pc = "aggregate"
    /\ result' = Stats(cache, reposToProcess, opts)
    /\ pc' = "done"
    /\ UNCHANGED <<disk, cache, opts, remote, locals, inflight, runs, crashes, passTomb,
                   prev, otherVars>>

\* the process is terminated during a pass: the memory is lost, the file stays
Crash ==
    /\ pc \notin {"idle", "done", "off"}
    /\ crashes < MaxCrashes
    /\ crashes' = crashes + 1
    /\ pc' = "idle"
    /\ cache' = emptyCache
    /\ inflight' = <<>>
    /\ LocalsReset
    /\ sent' = <<>>
    /\ UNCHANGED <<disk, opts, remote, result, runs, passTomb, prev, restVars>>

Next ==
    \/ StartRun
    \/ Discover
    \/ SkipDiscover
    \/ BeginEnumerate
    \/ EnumDispatch
    \/ EnumRespond
    \/ BeginDetails
    \/ BatchDispatch
    \/ \E j \in 1..MaxConcurrency : DetailSettle(j)
    \/ BatchSettle
    \/ BeginPRCounts
    \/ PRDispatch
    \/ PRRespond
    \/ Aggregate
    \/ Crash

Spec == Init /\ [][Next]_vars

(***************************************************************************)
(* Properties of the pipeline.                                             *)
(***************************************************************************)
\* collectCommitShas as a whole: the hashes of the pages up to the last page
\* or the first failed query
RECURSIVE collectCommitShas(_, _, _, _)
collectCommitShas(rem, key, cur, acc) ==
    LET resp == historyPage(rem, key, cur)
    IN  IF resp.kind = "page" /\ resp.hasNextPage
        THEN collectCommitShas(rem, key, cur + 1, acc \o resp.nodes)
        ELSE IF resp.kind = "page" THEN acc \o resp.nodes
        ELSE acc

RECURSIVE EnumerateAll(_, _, _)
EnumerateAll(data, todo, rem) ==
    IF todo = <<>> THEN data
    ELSE LET key == repoKey(Head(todo))
         IN  EnumerateAll(
                 markRepoComplete(
                     addCommits(data, key, collectCommitShas(rem, key, 0, <<>>)), key),
                 Tail(todo), rem)

RECURSIVE FetchAll(_, _, _, _)
FetchAll(data, list, n, rem) ==
    IF list = <<>> THEN data
    ELSE LET batch   == Slice(list, 0, n)
             results == [j \in DOMAIN batch |->
                            fetchCommitDetail(rem,
                                              batch[j].owner \o "/" \o batch[j].repo,
                                              batch[j].sha)]
         IN  FetchAll(RecordBatch(data, batch, results),
                      SubSeq(list, Len(batch) + 1, Len(list)), n, rem)

RECURSIVE CountAll(_, _, _)
CountAll(data, todo, rem) ==
    IF todo = <<>> THEN data
    ELSE LET key  == repoKey(Head(todo))
             resp == fetchPRCount(rem, key)
         IN  CountAll(IF resp.kind = "ok"
                      THEN markRepoPRComplete(setPRCount(data, key, resp.count), key)
                      ELSE markRepoPRComplete(data, key),
                      Tail(todo), rem)

\* the result of one pass that starts from no store and is never interrupted
UninterruptedResult(o, rem) ==
    LET d1  == [emptyCache EXCEPT !.repos = rem.repos]
        rtp == ReposToProcess(d1, o)
        d2  == EnumerateAll(d1, IncompleteRepos(d1, rtp), rem)
        d3  == FetchAll(d2, WorkList(d2, rtp), o.concurrency, rem)
        d4  == IF o.includePRCounts
               THEN CountAll(d3, IncompletePRRepos(d3, rtp), rem) ELSE d3
    IN  Stats(d4, rtp, o)

SameStats(a, b) == a.totals = b.totals /\ a.byRepo = b.byRepo

\* the first pass, when nothing interrupts it, returns UninterruptedResult
FirstPassIsReference ==
    (pc = "done" /\ runs = 1 /\ crashes = 0)
        => SameStats(result, UninterruptedResult(opts, remote))

\* C1 happens: a pass that follows an interruption has returned
ResumptionWitness == pc = "done" /\ opts.useCache /\ crashes = 1 /\ prev = NotRun

\* C1: with caching enabled and a remote that answers every query the same
\* way each time, a pass that completes after an interruption returns the
\* totals and byRepo of the uninterrupted pass
Resumption ==
    (pc = "done" /\ opts.useCache /\ prev = NotRun)
        => SameStats(result, UninterruptedResult(opts, remote))

\* the keys of the repositories marked SHA-complete in a store
Completed(data) == Range(data.completedRepos)

\* C2: no history query is in flight for a repository that the store, in
\* memory or on disk, marks SHA-complete
EnumerationMonotonic ==
    \A i \in DOMAIN inflight :
        inflight[i].kind = "history"
            => /\ inflight[i].key \notin Completed(cache)
               /\ inflight[i].key \notin Completed(load(disk).data)

\* C2 happens: a pass that found a repository SHA-complete in the loaded
\* store queries the history of another repository
EnumerationMonotonicWitness ==
    /\ crashes = 1
    /\ Completed(load(disk).data) # {}
    /\ \E i \in DOMAIN inflight : inflight[i].kind = "history"

\* C3: a hash that is a tombstone when a pass begins is in no detail request
\* of that pass and is a tombstone for the rest of it
TombstoneTerminal ==
    \A h \in passTomb :
        /\ \A i \in DOMAIN inflight : inflight[i].kind = "detail" => inflight[i].sha # h
        /\ \A i \in DOMAIN workList : workList[i].sha # h
        /\ pc \notin {"idle", "off"}
               => (h \in DOMAIN cache.commitDetails /\ cache.commitDetails[h] = NULL)

\* C3 happens: a pass that began with a tombstone has detail requests in flight
TombstoneTerminalWitness ==
    /\ passTomb # {}
    /\ \E i \in DOMAIN inflight : inflight[i].kind = "detail"

\* C8: a second pass in succession over the same store leaves the file as the
\* first pass left it and returns the same totals and byRepo
PipelineIdempotent ==
    (prev # NotRun)
        => /\ disk = prev.disk
           /\ pc = "done" => SameStats(result, prev.result)

\* C8 happens: the second pass in succession has returned, after a first
\* pass that fetched details and met a failing PR search
PipelineIdempotentWitness ==
    /\ prev # NotRun
    /\ pc = "done"
    /\ opts.useCache
    /\ DOMAIN load(disk).data.commitDetails # {}
    /\ \E k \in PipeKeys :
           remote.pr[k] = PRError /\ k \in Range(cache.completedPRRepos)

(***************************************************************************)
(* SpecSort: aggregate applied to repositories given in any order, each    *)
(* with one commit whose Go, Rust and Python line counts vary.             *)
(***************************************************************************)
SortKeys == <<"o/a", "o/B", "p/a">>

SortRepos ==
    <<[owner |-> "o", name |-> "a", isPrivate |-> FALSE],
      [owner |-> "o", name |-> "B", isPrivate |-> FALSE],
      [owner |-> "p", name |-> "a", isPrivate |-> FALSE]>>

SortHashes == <<"s1", "s2", "s3">>

\* the line counts of the Go, Rust and Python file of one commit
SortCounts ==
    {<<5, 50, 20>>, <<50, 5, 20>>, <<20, 20, 5>>, <<5, 5, 5>>, <<0, 20, 50>>}

SortDetail(sha, n) ==
    Detail(sha, [day |-> 1, ms |-> 0],
           <<File(<<"c", ".", "g", "o">>, n[1], 0),
             File(<<"m", ".", "r", "s">>, 0, n[2]),
             File(<<"l", ".", "p", "y">>, n[3], 0)>>)

\* the orders in which the repositories can be handed to aggregate
SortOrders ==
    {o \in SeqsUpTo(1..3, 3) : Len(o) > 0 /\ \A i, j \in DOMAIN o : o[i] = o[j] => i = j}

SortInputs == [order : SortOrders, counts : [1..3 -> SortCounts]]

SortCommitsByRepo(in) ==
    [i \in DOMAIN in.order |->
        [key |-> SortKeys[in.order[i]], val |-> <<SortHashes[in.order[i]]>>]]

SortCommitDetails(in) ==
    [h \in Range(SortHashes) |->
        LET i == CHOOSE k \in 1..3 : SortHashes[k] = h
        IN  SortDetail(h, in.counts[i])]

InitSort ==
    /\ aIn \in SortInputs
    /\ aOut = NotRun
    /\ PipeOff /\ StoreOff /\ LoadOff /\ RateOff

RunSort ==
    /\ aOut = NotRun
    /\ aOut' = aggregate("u", SortCommitsByRepo(aIn), SortCommitDetails(aIn), <<>>, FALSE,
                         EmptyMap, SortRepos, FALSE)
    /\ UNCHANGED <<aIn, pipeVars, storeVars, loadVars, rateVars>>

NextSort == RunSort

SpecSort == InitSort /\ [][NextSort]_vars

\* the counts of an ordered map never increase from one entry to the next
NonIncreasing(m) == \A i \in DOMAIN m : i + 1 \in DOMAIN m => m[i].val >= m[i + 1].val

\* the languages of totals and of every byRepo entry are in non-increasing
\* order of count, and {Go: 5, Rust: 50, Python: 20} comes out Rust, Python, Go
LanguagesByCount ==
    /\ NonIncreasing(aOut.totals)
    /\ \A i \in DOMAIN aOut.byRepo :
           /\ NonIncreasing(aOut.byRepo[i].val.contributionsCountPerLanguage)
           /\ aIn.counts[CHOOSE k \in 1..3 : SortKeys[k] = aOut.byRepo[i].key] = <<5, 50, 20>>
                  => aOut.byRepo[i].val.contributionsCountPerLanguage =
                         <<[key |-> "Rust", val |-> 50], [key |-> "Python", val |-> 20],
                           [key |-> "Go", val |-> 5]>>
    /\ Len(aOut.byRepo) = Len(aIn.order)

\* C11 as amended: the languages are ordered by non-increasing count, and the
\* repository keys of byRepo are in the order of localeCompare, the collation
\* order in which o/a comes before o/B
SortOrder ==
    aOut # NotRun =>
        /\ LanguagesByCount
        /\ \A i \in DOMAIN aOut.byRepo :
               i + 1 \in DOMAIN aOut.byRepo
                   => localeCompareLess(aOut.byRepo[i].key, aOut.byRepo[i + 1].key)

\* C11 happens: o/B, p/a and o/a were handed over in that order, with counts
\* that differ, and come out as o/a, o/B, p/a
SortOrderWitness ==
    /\ aOut # NotRun
    /\ aIn.order = <<2, 3, 1>>
    /\ aIn.counts[1] = <<5, 50, 20>>
    /\ [i \in DOMAIN aOut.byRepo |-> aOut.byRepo[i].key] = <<"o/a", "o/B", "p/a">>
    /\ [i \in DOMAIN aOut.totals |-> aOut.totals[i].key] # <<"Go", "Rust", "Python">>

\* C11 as stated: the languages are ordered by non-increasing count and the
\* repository keys of byRepo are in lexicographic (code unit) order
SortOrderLexicographic ==
    aOut # NotRun =>
        /\ LanguagesByCount
        /\ \A i \in DOMAIN aOut.byRepo :
               i + 1 \in DOMAIN aOut.byRepo
                   => SeqLess(CharsOf(aOut.byRepo[i].key), CharsOf(aOut.byRepo[i + 1].key),
                              CodeUnit)

(***************************************************************************)
(* SpecRetry: one call of fetchCommitDetail or fetchPRCount against a      *)
(* server whose successive responses are given by a script.  The tracked   *)
(* remaining count stays above the reserve, so throttle() never sleeps.    *)
(***************************************************************************)
DEFAULT_RETRY_AFTER == 60

RetryKinds == {"detail", "prcount"}

\* a response: its status and its retry-after header
Answers ==
    [status : {200, 404, 422, 500, 403, 429}, retryAfter : {HeaderAbsent, Header(2)}]

Scripts == {s \in SeqsUpTo(Answers, MaxAnswers) : Len(s) > 0}

\* the hash and the repository the call is about
RetrySha == "h1"

RetryRepo == "o/a"

\* lines 355-368 and 415-419: what a 200 response is turned into
RetryBody(kind) == IF kind = "detail" THEN DetailOf[RetrySha] ELSE 2

\* the value field of a call that has not returned
Unresolved == [kind |-> "unresolved"]

InitRetry ==
    /\ rateLimitTotal = INITIAL_RATE_LIMIT
    /\ rateLimitRemaining = INITIAL_RATE_LIMIT
    /\ rateLimitReset = 0
    /\ now = StartClock
    /\ \E kind \in RetryKinds, script \in Scripts :
           calls = <<[kind |-> kind, st |-> "called", script |-> script, sent |-> 0,
                      received |-> 0, lastStatus |-> 0, wakeAt |-> 0, waited |-> 0,
                      value |-> Unresolved, noted |-> FALSE]>>
    /\ PipeOff /\ StoreOff /\ LoadOff /\ AggOff

\* lines 334-336, 392-396: throttle() passes and the request is sent
RetrySend ==
    /\ calls[1].st = "called"
    /\ rateLimitRemaining > RATE_LIMIT_RESERVE
    /\ calls' = [calls EXCEPT ![1].st = "sent", ![1].sent = @ + 1]
    /\ UNCHANGED <<rateLimitTotal, rateLimitRemaining, rateLimitReset, now>>
    /\ UNCHANGED <<pipeVars, storeVars, loadVars, aggVars>>

\* parseInt(res.headers.get("retry-after") ?? "60", 10)
retryAfterSeconds(h) == IF h.present THEN h.value ELSE DEFAULT_RETRY_AFTER

\* a status that is not 404 alone
IsAbsentNotFound(status) == status = 404

\* lines 339 and 399: the statuses that say the thing asked for is not there
IsAbsent(status) == status \in {404, 422}

\* lines 339 and 399: null for a commit, 0 for a PR count
AbsentValue(kind) == IF kind = "detail" THEN NULL ELSE 0

\* lines 339-368, 399-419: the response arrives
RetryReceive ==
    /\ calls[1].st = "sent"
    /\ calls[1].script # <<>>
    /\ LET res == Head(calls[1].script)
           c   == [calls[1] EXCEPT !.script = Tail(@), !.received = @ + 1,
                                   !.lastStatus = res.status]
       IN  calls' = [calls EXCEPT ![1] =
                        IF IsAbsent(res.status)
                        THEN [c EXCEPT !.st = "returned", !.value = AbsentValue(c.kind)]
                        ELSE IF res.status \in {429, 403}
                        THEN [c EXCEPT !.st = "sleeping",
                                       !.wakeAt = now + retryAfterSeconds(res.retryAfter),
                                       !.waited = retryAfterSeconds(res.retryAfter)]
                        ELSE IF res.status = 200
                        THEN [c EXCEPT !.st = "returned", !.value = RetryBody(c.kind)]
                        ELSE [c EXCEPT !.st = "threw"]]
    /\ UNCHANGED <<rateLimitTotal, rateLimitRemaining, rateLimitReset, now>>
    /\ UNCHANGED <<pipeVars, storeVars, loadVars, aggVars>>

\* lines 346-347, 406-407: sleep() is over and the method calls itself
RetryWake ==
    /\ calls[1].st = "sleeping"
    /\ now' = Max(now, calls[1].wakeAt)
    /\ calls' = [calls EXCEPT ![1].st = "called"]
    /\ UNCHANGED <<rateLimitTotal, rateLimitRemaining, rateLimitReset>>
    /\ UNCHANGED <<pipeVars, storeVars, loadVars, aggVars>>

\* part_000 lines 262-270 and 284-303: the orchestrator takes the outcome
\* of the call into the store
RetryRecord ==
    /\ calls[1].st \in {"returned", "threw"}
    /\ ~calls[1].noted
    /\ sData' = IF calls[1].kind = "detail"
                THEN setCommitDetail(sData, RetrySha,
                         IF calls[1].st = "returned" THEN calls[1].value ELSE NULL)
                ELSE IF calls[1].st = "returned"
                THEN markRepoPRComplete(setPRCount(sData, RetryRepo, calls[1].value),
                                        RetryRepo)
                ELSE markRepoPRComplete(sData, RetryRepo)
    /\ calls' = [calls EXCEPT ![1].noted = TRUE]
    /\ UNCHANGED <<sLog, rateLimitTotal, rateLimitRemaining, rateLimitReset, now>>
    /\ UNCHANGED <<pipeVars, loadVars, aggVars>>

NextRetry == RetrySend \/ RetryReceive \/ RetryWake \/ RetryRecord

SpecRetry == InitRetry /\ [][NextRetry]_vars

\* C14: a call sends at most 2 requests; it waits only after its first
\* response, for the retry-after delay or 60 s; once it has 2 responses it
\* has returned or thrown, whatever the second status
RetryOnce ==
    /\ calls[1].sent <= 2
    /\ calls[1].st = "sleeping"
           => (calls[1].received = 1 /\ calls[1].waited \in {2, DEFAULT_RETRY_AFTER})
    /\ calls[1].received >= 2 => calls[1].st \in {"returned", "threw"}

\* C14 happens: the retry of a call got 403 or 429 as well
RetryOnceWitness ==
    /\ calls[1].received = 2
    /\ calls[1].lastStatus \in {403, 429}

\* C29 (expected absence): a call whose response was 404 or 422 has
\* returned, null for a commit and 0 for a PR count, with no request sent
\* after that response; once the orchestrator has taken the outcome the hash
\* has an entry holding the tombstone, and before that it has none.
ExpectedAbsence ==
    LET c == calls[1]
    IN  c.lastStatus \in {404, 422}
            => /\ c.st = "returned"
               /\ c.sent = c.received
               /\ c.kind = "detail"
                      => /\ c.value = NULL
                         /\ c.noted <=> RetrySha \in DOMAIN sData.commitDetails
                         /\ c.noted => sData.commitDetails[RetrySha] = NULL
               /\ c.kind = "prcount"
                      => /\ c.value = 0
                         /\ c.noted => (/\ RetryRepo \in DOMAIN sData.prCountByRepo
                                        /\ sData.prCountByRepo[RetryRepo] = 0)

\* C29 happens: the commit was answered with 422 and the orchestrator has
\* recorded it
ExpectedAbsenceWitness ==
    /\ calls[1].kind = "detail"
    /\ calls[1].lastStatus = 422
    /\ calls[1].noted

(***************************************************************************)
(* The detail-fetch phase of the library pipeline and of the CLI, with the *)
(* record loop and the flush that follows it as separate steps: the        *)
(* process can be terminated between the two.  The store holds one         *)
(* repository whose hashes are enumerated and none of whose details are    *)
(* fetched.                                                                *)
(***************************************************************************)
SAVE_STRIDE == 50

MaxFlushWork == 52

MaxFlushConcurrency == 3

\* the hashes of the repository, in the order of its list
FlushHashes ==
    <<"h1", "h2", "h3", "c04", "c05", "c06", "c07", "c08",
      "c09", "c10", "c11", "c12", "c13", "c14", "c15", "c16",
      "c17", "c18", "c19", "c20", "c21", "c22", "c23", "c24",
      "c25", "c26", "c27", "c28", "c29", "c30", "c31", "c32",
      "c33", "c34", "c35", "c36", "c37", "c38", "c39", "c40",
      "c41", "c42", "c43", "c44", "c45", "c46", "c47", "c48",
      "c49", "c50", "c51", "c52", "c53", "c54", "c55", "c56">>

FlushOptions ==
    [program : {"lib"}, useCache : BOOLEAN, concurrency : 1..MaxFlushConcurrency]
    \cup [program : {"cli"}, noCache : BOOLEAN, concurrency : 1..MaxFlushConcurrency]

\* the remote answers 200 for h1, 404 for h2 and every second hash after it,
\* and a server error for the others
FlushRemote ==
    [detail |-> [k \in {"o/a"} |->
                    [h \in Range(FlushHashes) |->
                        IF h = "h1" THEN "200"
                        ELSE IF \E i \in DOMAIN FlushHashes :
                                    FlushHashes[i] = h /\ i % 2 = 0
                        THEN "404" ELSE "500"]]]

\* the store when the phase begins, n hashes enumerated
FlushStore(n) ==
    [emptyCache EXCEPT !.repos = <<RepoA>>,
                       !.completedRepos = <<"o/a">>,
                       !.commitsByRepo = MapPut(EmptyMap, "o/a", SubSeq(FlushHashes, 1, n))]

\* the library's useCache and the CLI's !opts.noCache
Caching(o) == IF o.program = "lib" THEN o.useCache ELSE ~o.noCache

InitFlush ==
    /\ opts \in FlushOptions
    /\ remote = FlushRemote
    /\ \E n \in 0..MaxFlushWork : cache = FlushStore(n)
    /\ disk = IF Caching(opts) THEN save(cache) ELSE FileMissing
    /\ pc = "phase3"
    /\ reposToProcess = cache.repos
    /\ incompleteRepos = <<>>
    /\ ei = 0
    /\ shas = <<>>
    /\ cursor = 0
    /\ workList = <<>>
    /\ wi = 0
    /\ inflight = <<>>
    /\ incompletePRRepos = <<>>
    /\ pj = 0
    /\ prFetched = 0
    /\ result = NotRun
    /\ runs = 1
    /\ crashes = 0
    /\ passTomb = {}
    /\ prev = NotRun
    /\ sent = <<>>
    /\ saveCounter = 0
    /\ events = <<>>
    /\ disc = NotRun
    /\ StoreOff /\ LoadOff /\ RateOff /\ AggOff

flushFixed == <<opts, remote, reposToProcess, incompleteRepos, ei, shas, cursor,
                incompletePRRepos, pj, prFetched, result, runs, crashes, passTomb, prev,
                events, disc, storeVars, loadVars, rateVars, aggVars>>

\* the requests of workList.slice(i, i + concurrency)
BatchRequests(list, i, n) ==
    LET batch == Slice(list, i, n)
    IN  [j \in DOMAIN batch |->
            [kind |-> "detail", key |-> batch[j].owner \o "/" \o batch[j].repo,
             sha |-> batch[j].sha]]

\* the settled results of the batch, in the order of the batch
BatchResults(rem, list, i, n) ==
    LET batch == Slice(list, i, n)
    IN  [j \in DOMAIN batch |->
            fetchCommitDetail(rem, batch[j].owner \o "/" \o batch[j].repo, batch[j].sha)]

\* library, lines 243-254: the work list
LibBegin ==
    /\ pc = "phase3"
    /\ opts.program = "lib"
    /\ workList' = WorkList(cache, reposToProcess)
    /\ wi' = 0
    /\ pc' = "libLoop"
    /\ UNCHANGED <<disk, cache, inflight, sent, saveCounter, flushFixed>>

\* library, lines 255-261: a batch is sent
LibBatch ==
    /\ pc = "libLoop"
    /\ wi < Len(workList)
    /\ inflight' = BatchRequests(workList, wi, opts.concurrency)
    /\ sent' = sent \o inflight'
    /\ pc' = "libWait"
    /\ UNCHANGED <<disk, cache, workList, wi, saveCounter, flushFixed>>

\* library, lines 262-270: every request has settled and the results are
\* recorded in memory
LibRecord ==
    /\ pc = "libWait"
    /\ cache' = RecordBatch(cache, Slice(workList, wi, opts.concurrency),
                            BatchResults(remote, workList, wi, opts.concurrency))
    /\ inflight' = <<>>
    /\ pc' = "libRecorded"
    /\ UNCHANGED <<disk, workList, wi, sent, saveCounter, flushFixed>>

\* library, line 271, and the loop's increment
LibFlush ==
    /\ pc = "libRecorded"
    /\ disk' = Saved(opts, cache, disk)
    /\ wi' = wi + opts.concurrency
    /\ pc' = "libLoop"
    /\ UNCHANGED <<cache, workList, inflight, sent, saveCounter, flushFixed>>

\* library, line 255: the loop ends
LibFinish ==
    /\ pc = "libLoop"
    /\ wi >= Len(workList)
    /\ pc' = "flushDone"
    /\ UNCHANGED <<disk, cache, workList, wi, inflight, sent, saveCounter, flushFixed>>

\* CLI, lines 614-640: nothing pending, or the work list and the counter
CliBegin ==
    /\ pc = "phase3"
    /\ opts.program = "cli"
    /\ IF pendingCommitCount(cache) > 0
       THEN /\ workList' = WorkList(cache, cache.repos)
            /\ pc' = "cliLoop"
       ELSE /\ workList' = <<>>
            /\ pc' = "flushDone"
    /\ wi' = 0
    /\ saveCounter' = 0
    /\ UNCHANGED <<disk, cache, inflight, sent, flushFixed>>

\* CLI, lines 645-651: a batch is sent
CliBatch ==
    /\ pc = "cliLoop"
    /\ wi < Len(workList)
    /\ inflight' = BatchRequests(workList, wi, opts.concurrency)
    /\ sent' = sent \o inflight'
    /\ pc' = "cliWait"
    /\ UNCHANGED <<disk, cache, workList, wi, saveCounter, flushFixed>>

\* CLI, lines 653-665: the results are recorded and counted
CliRecord ==
    /\ pc = "cliWait"
    /\ cache' = RecordBatch(cache, Slice(workList, wi, opts.concurrency),
                            BatchResults(remote, workList, wi, opts.concurrency))
    /\ saveCounter' = saveCounter + Len(Slice(workList, wi, opts.concurrency))
    /\ inflight' = <<>>
    /\ pc' = "cliRecorded"
    /\ UNCHANGED <<disk, workList, wi, sent, flushFixed>>

\* a flush that waits for the counter to pass the stride: FlushCadence fails
\* of it
FlushDueLate(o, n) == ~o.noCache /\ n > SAVE_STRIDE

\* CLI, line 666
FlushDue(o, n) == ~o.noCache /\ n >= SAVE_STRIDE

\* CLI, lines 666-669, and the loop's increment
CliFlush ==
    /\ pc = "cliRecorded"
    /\ IF FlushDue(opts, saveCounter)
       THEN /\ disk' = save(cache)
            /\ saveCounter' = 0
       ELSE UNCHANGED <<disk, saveCounter>>
    /\ wi' = wi + opts.concurrency
    /\ pc' = "cliLoop"
    /\ UNCHANGED <<cache, workList, inflight, sent, flushFixed>>

\* CLI, line 686: the loop has ended
CliFinish ==
    /\ pc = "cliLoop"
    /\ wi >= Len(workList)
    /\ disk' = IF ~opts.noCache THEN save(cache) ELSE disk
    /\ pc' = "flushDone"
    /\ UNCHANGED <<cache, workList, wi, inflight, sent, saveCounter, flushFixed>>

NextFlush ==
    \/ LibBegin
    \/ LibBatch
    \/ LibRecord
    \/ LibFlush
    \/ LibFinish
    \/ CliBegin
    \/ CliBatch
    \/ CliRecord
    \/ CliFlush
    \/ CliFinish

SpecFlush == InitFlush /\ [][NextFlush]_vars

\* the details the memory holds and the file does not
Unsaved ==
    LET onDisk == load(disk).data.commitDetails
    IN  {h \in DOMAIN cache.commitDetails :
            h \notin DOMAIN onDisk \/ onDisk[h] # cache.commitDetails[h]}

InDetailPhase ==
    pc \in {"libLoop", "libWait", "libRecorded", "cliLoop", "cliWait", "cliRecorded"}

\* C17 (bounded replay): with caching enabled, at every point of the
\* detail-fetch phase where the process can be terminated, the details held
\* in memory and absent from the file number at most the concurrency in the
\* library and at most 50 in the CLI, whatever the concurrency.
BoundedReplay ==
    (InDetailPhase /\ Caching(opts))
        => Cardinality(Unsaved) <= (IF opts.program = "lib" THEN opts.concurrency
                                    ELSE SAVE_STRIDE)

BoundedReplayWitness ==
    /\ pc = "cliRecorded"
    /\ ~opts.noCache
    /\ Cardinality(Unsaved) > SAVE_STRIDE


\* C18 (flush cadence, as the code has it): with caching enabled, whenever
\* the library dispatches a batch the file holds every detail recorded by
\* the batches before it; whenever the CLI dispatches a batch the details
\* recorded and absent from the file are those counted since its last flush,
\* fewer than 50; and when the phase has ended the file holds every detail,
\* in both programs.
FlushCadence ==
    Caching(opts)
        => /\ pc = "libWait" => Unsaved = {}
           /\ pc = "cliWait" => /\ Cardinality(Unsaved) = saveCounter
                                /\ saveCounter < SAVE_STRIDE
           /\ pc = "flushDone" => Unsaved = {}

\* the CLI dispatches a batch after a stride flush with details unflushed
FlushCadenceWitness ==
    /\ pc = "cliWait"
    /\ ~opts.noCache
    /\ wi >= SAVE_STRIDE
    /\ Unsaved # {}

\* C18 as stated: with caching enabled, in the library and in the CLI alike,
\* whenever a batch is dispatched the file holds every detail recorded by
\* the batches before it.
FlushPerBatch ==
    (Caching(opts) /\ pc \in {"libWait", "cliWait"}) => Unsaved = {}

(***************************************************************************)
(* getGithubLangStats with useCache=false, passes in a row against one     *)
(* remote, while the cache file at cachePath is put there or replaced from *)
(* outside between passes (by a pass that ran with useCache=true, or by    *)
(* the CLI, which shares the default path).                                *)
(***************************************************************************)
\* the file a caching pass leaves after discovery (line 205)
FileDiscovered == save([emptyCache EXCEPT !.repos = <<RepoA, RepoB>>])

\* the file of a finished caching pass that found one commit, h1, and had
\* 404 for its detail
FileTombstoned ==
    save([emptyCache EXCEPT
              !.repos = <<RepoA, RepoB>>,
              !.completedRepos = <<"o/a", "o/b">>,
              !.commitsByRepo = MapPut(MapPut(EmptyMap, "o/a", <<"h1">>), "o/b", <<>>),
              !.commitDetails = MapPut(EmptyMap, "h1", NULL),
              !.prCountByRepo = MapPut(MapPut(EmptyMap, "o/a", 0), "o/b", 0),
              !.completedPRRepos = <<"o/a", "o/b">>])

PlantedFiles == {FileDiscovered, FileTombstoned}

InitNoCache ==
    /\ InitPipe
    /\ ~opts.useCache
    /\ opts.repoFilter = NoFilter

\* between two passes the file at cachePath is replaced
PlantFile ==
    /\ pc \in {"idle", "done"}
    /\ runs < MaxRuns
    /\ disk' \in PlantedFiles \ {disk}
    /\ UNCHANGED <<cache, opts, remote, pc, locals, inflight, result, runs, crashes,
                   passTomb, prev, otherVars>>

NextNoCache ==
    \/ Next
    \/ PlantFile

SpecNoCache == InitNoCache /\ [][NextNoCache]_vars

(***************************************************************************)
(* Passes of the library and of the CLI in a row over one cache file and   *)
(* one remote, each pass with its own allow-list: the repos option of the  *)
(* library, the interactive selection of the CLI.  A phase is one step.    *)
(***************************************************************************)
Selections == {<<>>, <<"o/a">>, <<"o/b">>, <<"o/a", "o/b">>}

SelectOptions ==
    [program : {"lib"}, user : {"u"}, useCache : {TRUE}, concurrency : {1},
     repoFilter : {NoFilter, Filter(<<"o/a">>), Filter(<<"o/b">>)},
     includePRCounts : {TRUE}, includeCommitDates : {TRUE}, excludeLanguages : {<<>>}]
    \cup
    [program : {"cli"}, user : {"u"}, noCache : {FALSE}, concurrency : {1},
     selectRepos : BOOLEAN, selected : Selections,
     excludePrCounts : {FALSE}, excludeCommitDates : {FALSE}, excludeLanguages : {<<>>}]

\* o/a has one commit; o/b has one, or two on two pages of which the first
\* is o/a's
SelectRemotes ==
    {r \in Remotes([repoFilter |-> NoFilter]) :
        /\ r.history["o/a"] = <<Page(<<"h1">>, FALSE)>>
        /\ r.history["o/b"] \in {<<Page(<<"h2">>, FALSE)>>,
                                 <<Page(<<"h1">>, TRUE), Page(<<"h2">>, FALSE)>>}}

InitSelect ==
    /\ opts = NotRun
    /\ remote \in SelectRemotes
    /\ disk = FileMissing
    /\ cache = emptyCache
    /\ pc = "idle"
    /\ reposToProcess = <<>>
    /\ incompleteRepos = <<>>
    /\ ei = 0
    /\ shas = <<>>
    /\ cursor = 0
    /\ workList = <<>>
    /\ wi = 0
    /\ inflight = <<>>
    /\ incompletePRRepos = <<>>
    /\ pj = 0
    /\ prFetched = 0
    /\ result = NotRun
    /\ runs = 0
    /\ crashes = 0
    /\ passTomb = {}
    /\ prev = NotRun
    /\ sent = <<>>
    /\ saveCounter = 0
    /\ events = <<>>
    /\ disc = NotRun
    /\ StoreOff /\ LoadOff /\ RateOff /\ AggOff

selectFixed == <<remote, incompleteRepos, ei, shas, cursor, workList, wi, inflight,
                 incompletePRRepos, pj, prFetched, crashes, passTomb, prev, saveCounter,
                 events, disc, storeVars, loadVars, rateVars, aggVars>>

\* the queries collectCommitShas sends for one repository, from a cursor on
RECURSIVE HistoryRequests(_, _, _)
HistoryRequests(rem, key, cur) ==
    LET resp == historyPage(rem, key, cur)
        this == <<[kind |-> "history", key |-> key, cursor |-> cur]>>
    IN  IF resp.kind = "page" /\ resp.hasNextPage
        THEN this \o HistoryRequests(rem, key, cur + 1)
        ELSE this

RECURSIVE EnumRequests(_, _)
EnumRequests(todo, rem) ==
    IF todo = <<>> THEN <<>>
    ELSE HistoryRequests(rem, repoKey(Head(todo)), 0) \o EnumRequests(Tail(todo), rem)

PRRequests(todo) == [i \in DOMAIN todo |-> [kind |-> "prcount", key |-> repoKey(todo[i])]]

\* the file after the library's PR loop: saved after each count that arrived
RECURSIVE CountAllSaved(_, _, _, _)
CountAllSaved(data, file, todo, rem) ==
    IF todo = <<>> THEN file
    ELSE LET key  == repoKey(Head(todo))
             resp == fetchPRCount(rem, key)
             next == IF resp.kind = "ok"
                     THEN markRepoPRComplete(setPRCount(data, key, resp.count), key)
                     ELSE markRepoPRComplete(data, key)
         IN  CountAllSaved(next, IF resp.kind = "ok" THEN save(next) ELSE file,
                           Tail(todo), rem)

\* the program starts: options are given and the file is loaded
SelStart ==
    /\ pc \in {"idle", "done", "exited"}
    /\ runs < MaxRuns
    /\ runs' = runs + 1
    /\ opts' \in SelectOptions
    /\ cache' = load(disk).data
    /\ reposToProcess' = <<>>
    /\ result' = NotRun
    /\ sent' = <<>>
    /\ pc' = "phase1"
    /\ UNCHANGED <<disk, selectFixed>>

\* Phase 1 of either program: discovery when the store holds no repository
SelDiscover ==
    /\ pc = "phase1"
    /\ IF Len(cache.repos) = 0
       THEN /\ cache' = [cache EXCEPT !.repos = remote.repos]
            /\ disk' = save(cache')
            /\ sent' = Append(sent, [kind |-> "discover", user |-> opts.user])
       ELSE UNCHANGED <<cache, disk, sent>>
    /\ pc' = "select"
    /\ UNCHANGED <<opts, reposToProcess, result, runs, selectFixed>>

\* the keys the user ticks among the choices, which are the stored keys
Ticked(data, o) ==
    SelectSeq(data.repos, LAMBDA r : Includes(o.selected, repoKey(r)))

\* CLI, lines 542-545: cache.repos = cache.repos.filter(...)
SelectRepos(data, o) == [data EXCEPT !.repos = Ticked(data, o)]

\* library lines 208-210; CLI lines 512-549 (Phase 1.5)
SelFilter ==
    /\ pc = "select"
    /\ IF opts.program = "lib"
       THEN /\ reposToProcess' = ReposToProcess(cache, opts)
            /\ pc' = "phase2"
            /\ UNCHANGED cache
       ELSE IF ~opts.selectRepos
       THEN /\ reposToProcess' = cache.repos
            /\ pc' = "phase2"
            /\ UNCHANGED cache
       ELSE IF Ticked(cache, opts) = <<>>
       THEN /\ pc' = "exited"                      \* process.exit(0)
            /\ UNCHANGED <<cache, reposToProcess>>
       ELSE /\ cache' = SelectRepos(cache, opts)
            /\ reposToProcess' = cache'.repos
            /\ pc' = "phase2"
    /\ UNCHANGED <<disk, opts, result, runs, sent, selectFixed>>

\* Phase 2 of either program, every incomplete repository in turn
SelEnumerate ==
    /\ pc = "phase2"
    /\ LET todo == IncompleteRepos(cache, reposToProcess)
       IN  /\ cache' = EnumerateAll(cache, todo, remote)
           /\ disk' = IF todo = <<>> THEN disk ELSE save(cache')
           /\ sent' = sent \o EnumRequests(todo, remote)
    /\ pc' = "phase3"
    /\ UNCHANGED <<opts, reposToProcess, result, runs, selectFixed>>

\* Phase 3 of either program, every batch in turn
SelDetails ==
    /\ pc = "phase3"
    /\ LET list == WorkList(cache, reposToProcess)
       IN  /\ cache' = FetchAll(cache, list, opts.concurrency, remote)
           /\ disk' = IF list = <<>> THEN disk ELSE save(cache')
           /\ sent' = sent \o BatchRequests(list, 0, Len(list))
    /\ pc' = "phase35"
    /\ UNCHANGED <<opts, reposToProcess, result, runs, selectFixed>>

\* Phase 3.5: library lines 277-306, CLI lines 696-752
SelPRCounts ==
    /\ pc = "phase35"
    /\ LET todo == IncompletePRRepos(cache, reposToProcess)
       IN  /\ cache' = CountAll(cache, todo, remote)
           /\ disk' = IF opts.program = "lib"
                      THEN CountAllSaved(cache, disk, todo, remote)
                      ELSE IF todo = <<>> THEN disk ELSE save(cache')
           /\ sent' = sent \o PRRequests(todo)
    /\ pc' = "phase4"
    /\ UNCHANGED <<opts, reposToProcess, result, runs, selectFixed>>

\* Object.entries(commitsByRepo) of the store.  The store of the model keeps
\* no insertion order; aggregate sorts byRepo by key, and what is stated of
\* these results compares totals as sets of entries.
RECURSIVE EntriesOf(_, _)
EntriesOf(m, keys) ==
    IF keys = {} THEN <<>>
    ELSE LET k == CHOOSE x \in keys : TRUE
         IN  <<[key |-> k, val |-> m[k]]>> \o EntriesOf(m, keys \ {k})

\* CLI, lines 757-768: aggregate over the whole stored commitsByRepo
CliStats(data, o) ==
    aggregate(o.user, EntriesOf(data.commitsByRepo, DOMAIN data.commitsByRepo),
              data.commitDetails, o.excludeLanguages, ~o.excludeCommitDates,
              data.prCountByRepo, data.repos, ~o.excludePrCounts)

\* Phase 4: library lines 310-328, CLI lines 755-768
SelAggregate ==
    /\ pc = "phase4"
    /\ result' = IF opts.program = "lib" THEN Stats(cache, reposToProcess, opts)
                 ELSE CliStats(cache, opts)
    /\ pc' = "done"
    /\ UNCHANGED <<disk, cache, opts, reposToProcess, runs, sent, selectFixed>>

NextSelect ==
    \/ SelStart
    \/ SelDiscover
    \/ SelFilter
    \/ SelEnumerate
    \/ SelDetails
    \/ SelPRCounts
    \/ SelAggregate

SpecSelect == InitSelect /\ [][NextSelect]_vars

\* the keys a pass is restricted to
Allowed(o) ==
    IF o.program = "lib"
    THEN (IF o.repoFilter.set THEN Range(o.repoFilter.keys) ELSE PipeKeys)
    ELSE (IF o.selectRepos THEN Range(o.selected) ELSE PipeKeys)

Restricted(o) == Allowed(o) # PipeKeys

\* the totals of the stored commits of the allowed repositories alone
AllowedTotals(data, rem, o) ==
    aggregate(o.user,
              FilteredCommitsByRepo(data, SelectSeq(rem.repos,
                                                    LAMBDA r : repoKey(r) \in Allowed(o))),
              data.commitDetails, <<>>, TRUE, data.prCountByRepo, rem.repos, TRUE).totals

\* C21 (allow-list restriction): when a pass is restricted to an allow-list,
\* no history, detail or PR-count request of the pass names a repository
\* outside the list, and in the result it returns byRepo has no key outside
\* the list and totals are the totals of the listed repositories alone,
\* whatever earlier passes left in the store.
AllowListRestricts ==
    /\ (pc \notin {"idle", "phase1"})
           => \A i \in DOMAIN sent :
                  sent[i].kind # "discover" => sent[i].key \in Allowed(opts)
    /\ (pc = "done")
           => /\ OmKeys(result.byRepo) \subseteq Allowed(opts)
              /\ Range(result.totals) = Range(AllowedTotals(cache, remote, opts))

\* a restricted pass has returned over a store that holds the commits of a
\* repository outside its list
AllowListRestrictsWitness ==
    /\ pc = "done"
    /\ Restricted(opts)
    /\ \E k \in PipeKeys \ Allowed(opts) : getCommits(cache, k) # <<>>

\* C22 (the repository set is immutable once discovered): from the end of
\* discovery on, in every pass of either program, the repository list of the
\* in-memory store and of the file is the list discovery found; restricting
\* a pass removes no repository from the store.
RepoSetImmutable ==
    (pc \notin {"idle", "phase1"})
        => /\ cache.repos = remote.repos
           /\ load(disk).data.repos = remote.repos

\* a CLI pass with a selection that leaves a repository out has ended
RepoSetImmutableWitness ==
    /\ pc = "done"
    /\ opts.program = "cli"
    /\ opts.selectRepos
    /\ Restricted(opts)
(***************************************************************************)
(* SpecProgress: passes of getGithubLangStats with a progress observer,    *)
(* one step per phase.  events is what the observer was handed in the      *)
(* pass, sent the requests of the pass; prev holds how the pass before     *)
(* ended and the store this pass began with.  An observer either never     *)
(* throws or throws on the events of one phase.                            *)
(***************************************************************************)
MaxYears == 2

Phases == {"discover", "shas", "details", "pr-counts", "aggregate"}

PageAbsent == [kind |-> "absent"]

ProgressOptions ==
    [user : {"u"},
     useCache : BOOLEAN,
     concurrency : 1..MaxConcurrency,
     repoFilter : {NoFilter},
     includePRCounts : {TRUE},
     includeCommitDates : {TRUE},
     excludeLanguages : {<<>>},
     years : 1..MaxYears,
     throwsAt : {"never"} \cup Phases]

\* the remotes: o/a has no history, an empty page, one page or two pages;
\* listing is the answer to GET /user/repos
ProgressRemotes ==
    [repos   : {<<RepoA, RepoB>>},
     listing : {"ok", "error"},
     history : {[k \in PipeKeys |-> IF k = "o/a" THEN h ELSE <<Page(<<"h2">>, FALSE)>>] :
                   h \in {<<PageAbsent>>, <<Page(<<>>, FALSE)>>, <<Page(<<"h1">>, FALSE)>>,
                          <<Page(<<"h1">>, TRUE), Page(<<"h2">>, FALSE)>>}},
     detail  : {[k \in PipeKeys |-> [h \in PipeHashes |-> "200"]]},
     pr      : {[k \in PipeKeys |-> IF k = "o/a" THEN p ELSE PROk(2)] : p \in PRMenu}]

InitProgress ==
    /\ opts = NotRun
    /\ remote \in ProgressRemotes
    /\ disk = FileMissing
    /\ cache = emptyCache
    /\ pc = "idle"
    /\ reposToProcess = <<>>
    /\ incompleteRepos = <<>>
    /\ ei = 0
    /\ shas = <<>>
    /\ cursor = 0
    /\ workList = <<>>
    /\ wi = 0
    /\ inflight = <<>>
    /\ incompletePRRepos = <<>>
    /\ pj = 0
    /\ prFetched = 0
    /\ result = NotRun
    /\ runs = 0
    /\ crashes = 0
    /\ passTomb = {}
    /\ prev = NotRun
    /\ sent = <<>>
    /\ saveCounter = 0
    /\ events = <<>>
    /\ disc = NotRun
    /\ StoreOff /\ LoadOff /\ RateOff /\ AggOff

progressFixed == <<remote, ei, shas, cursor, workList, wi, inflight, incompletePRRepos, pj,
                   prFetched, runs, crashes, passTomb, saveCounter, disc,
                   storeVars, loadVars, rateVars, aggVars>>

\* the observer throws when it is handed an event of this phase
Throws(o, phase) == o.throwsAt = phase

\* lines 158-188: the call is made and the store constructed from the file
ProgStart ==
    /\ pc \in {"idle", "done", "failed"}
    /\ opts' \in ProgressOptions
    /\ cache' = load(disk).data
    /\ prev' = [kind |-> IF pc = "idle" THEN "none" ELSE pc, begun |-> cache']
    /\ sent' = <<>>
    /\ events' = <<>>
    /\ result' = NotRun
    /\ reposToProcess' = <<>>
    /\ incompleteRepos' = <<>>
    /\ pc' = "phase1"
    /\ UNCHANGED <<disk, progressFixed>>

\* a listing that takes a failed page for the end of the list
discoverReposViaRestLenient(rem) ==
    IF rem.listing = "ok" THEN [kind |-> "ok", repos |-> rem.repos]
    ELSE [kind |-> "ok", repos |-> <<>>]

\* github-client.ts lines 99-129: the listing, or the throw of line 110
discoverReposViaRest(rem) ==
    IF rem.listing = "ok" THEN [kind |-> "ok", repos |-> rem.repos]
    ELSE [kind |-> "threw"]

\* github-client.ts lines 144-145, part_000 lines 198-203: one event a year
YearEvents(o) == [y \in 1..o.years |-> [phase |-> "discover", year |-> y]]

\* github-client.ts lines 149-177: one query a year
YearRequests(o) == [y \in 1..o.years |-> [kind |-> "contributions", year |-> y]]

\* a store that never counts as discovered
DiscoveryDoneNever(data) == FALSE

\* line 192: discovery is taken as done when the store has a repository
DiscoveryDone(data) == Len(data.repos) # 0

\* lines 192-206
ProgDiscover ==
    /\ pc = "phase1"
    /\ LET first   == [phase |-> "discover", year |-> 0]
           listReq == [kind |-> "listing"]
           listed  == discoverReposViaRest(remote)
       IN  IF DiscoveryDone(cache)
           THEN /\ pc' = "phase2"
                /\ UNCHANGED <<disk, cache, sent, events>>
           ELSE IF Throws(opts, "discover")
           THEN /\ events' = Append(events, first)
                /\ pc' = "failed"
                /\ UNCHANGED <<disk, cache, sent>>
           ELSE IF listed.kind = "threw"
           THEN /\ events' = Append(events, first)
                /\ sent' = Append(sent, listReq)
                /\ pc' = "failed"
                /\ UNCHANGED <<disk, cache>>
           ELSE /\ events' = Append(events, first) \o YearEvents(opts)
                /\ sent' = Append(sent, listReq) \o YearRequests(opts)
                /\ cache' = [cache EXCEPT !.repos = listed.repos]
                /\ disk' = Saved(opts, cache', disk)
                /\ pc' = "phase2"
    /\ UNCHANGED <<opts, prev, result, reposToProcess, incompleteRepos, progressFixed>>

\* github-client.ts lines 279-322 under the callback of part_000 lines
\* 225-231: the hashes returned, the events handed over and the queries sent
RECURSIVE ShasRun(_, _, _, _, _)
ShasRun(rem, key, cur, acc, o) ==
    LET resp == historyPage(rem, key, cur)
        req  == [kind |-> "history", key |-> key, cursor |-> cur]
    IN  IF resp.kind # "page"
        THEN [shas |-> acc, events |-> <<>>, sent |-> <<req>>]
        ELSE LET all == acc \o resp.nodes
                 ev  == [phase |-> "shas", repo |-> key, count |-> Len(all)]
             IN  IF Throws(o, "shas") \/ ~resp.hasNextPage
                 THEN [shas |-> all, events |-> <<ev>>, sent |-> <<req>>]
                 ELSE LET rest == ShasRun(rem, key, cur + 1, all, o)
                      IN  [shas   |-> rest.shas,
                           events |-> <<ev>> \o rest.events,
                           sent   |-> <<req>> \o rest.sent]

\* lines 221-238: the loop over incompleteRepos
RECURSIVE EnumRun(_, _, _, _)
EnumRun(data, todo, rem, o) ==
    IF todo = <<>> THEN [data |-> data, events |-> <<>>, sent |-> <<>>]
    ELSE LET key  == repoKey(Head(todo))
             one  == ShasRun(rem, key, 0, <<>>, o)
             rest == EnumRun(markRepoComplete(addCommits(data, key, one.shas), key),
                             Tail(todo), rem, o)
         IN  [data   |-> rest.data,
              events |-> one.events \o rest.events,
              sent   |-> one.sent \o rest.sent]

\* lines 208-239
ProgEnumerate ==
    /\ pc = "phase2"
    /\ reposToProcess' = ReposToProcess(cache, opts)
    /\ incompleteRepos' = IncompleteRepos(cache, reposToProcess')
    /\ LET run == EnumRun(cache, incompleteRepos', remote, opts)
       IN  /\ cache' = run.data
           /\ events' = events \o run.events
           /\ sent' = sent \o (IF incompleteRepos' # <<>>
                               THEN <<[kind |-> "nodeid", user |-> opts.user]>> ELSE <<>>)
                           \o run.sent
           /\ disk' = IF incompleteRepos' # <<>> THEN Saved(opts, cache', disk) ELSE disk
    /\ pc' = "phase3"
    /\ UNCHANGED <<opts, prev, result, progressFixed>>

\* line 272: the event after each batch
DetailEvents(total, n) ==
    [b \in 1..((total + n - 1) \div n) |->
        [phase |-> "details", fetched |-> Min(b * n, total), total |-> total]]

\* lines 243-273: the batches; a throw of the observer leaves the loop after
\* the first batch is recorded and saved
ProgDetails ==
    /\ pc = "phase3"
    /\ LET list  == WorkList(cache, reposToProcess)
           n     == opts.concurrency
           done  == IF Throws(opts, "details") THEN Slice(list, 0, n) ELSE list
           evs   == DetailEvents(Len(list), n)
       IN  /\ cache' = FetchAll(cache, done, n, remote)
           /\ sent' = sent \o BatchRequests(done, 0, Len(done))
           /\ events' = events \o (IF Throws(opts, "details") /\ list # <<>>
                                   THEN <<evs[1]>> ELSE evs)
           /\ disk' = IF list # <<>> THEN Saved(opts, cache', disk) ELSE disk
           /\ pc' = IF Throws(opts, "details") /\ list # <<>> THEN "failed" ELSE "phase35"
    /\ UNCHANGED <<opts, prev, result, reposToProcess, incompleteRepos, progressFixed>>

\* lines 291-295: an event for each count that arrived
RECURSIVE PREvents(_, _, _, _)
PREvents(todo, rem, fetched, total) ==
    IF todo = <<>> THEN <<>>
    ELSE IF fetchPRCount(rem, repoKey(Head(todo))).kind = "ok"
    THEN <<[phase |-> "pr-counts", fetched |-> fetched + 1, total |-> total]>>
             \o PREvents(Tail(todo), rem, fetched + 1, total)
    ELSE PREvents(Tail(todo), rem, fetched, total)

\* lines 277-306: a throw of the observer lands in the catch of line 300
ProgPRCounts ==
    /\ pc = "phase35"
    /\ LET todo == IF opts.includePRCounts
                   THEN IncompletePRRepos(cache, reposToProcess) ELSE <<>>
       IN  /\ cache' = CountAll(cache, todo, remote)
           /\ disk' = IF opts.useCache THEN CountAllSaved(cache, disk, todo, remote)
                      ELSE disk
           /\ sent' = sent \o PRRequests(todo)
           /\ events' = events \o PREvents(todo, remote, 0, Len(todo))
    /\ pc' = "phase4"
    /\ UNCHANGED <<opts, prev, result, reposToProcess, incompleteRepos, progressFixed>>

\* an aggregate event only when the pass had other events
EmitAggregateIfWork(evs) ==
    IF evs = <<>> THEN evs ELSE Append(evs, [phase |-> "aggregate"])

\* line 310
EmitAggregate(evs) == Append(evs, [phase |-> "aggregate"])

\* lines 308-328
ProgAggregate ==
    /\ pc = "phase4"
    /\ events' = EmitAggregate(events)
    /\ IF Throws(opts, "aggregate")
       THEN pc' = "failed" /\ UNCHANGED result
       ELSE pc' = "done" /\ result' = Stats(cache, reposToProcess, opts)
    /\ UNCHANGED <<disk, cache, opts, prev, sent, reposToProcess, incompleteRepos,
                   progressFixed>>

NextProgress ==
    \/ ProgStart
    \/ ProgDiscover
    \/ ProgEnumerate
    \/ ProgDetails
    \/ ProgPRCounts
    \/ ProgAggregate

SpecProgress == InitProgress /\ [][NextProgress]_vars

\* the store a pass leaves when nothing interrupts it and no observer
\* throws, from the store it began with
QuietStore(data, o, rem) ==
    LET d1  == IF Len(data.repos) = 0 THEN [data EXCEPT !.repos = rem.repos] ELSE data
        rtp == ReposToProcess(d1, o)
        d2  == EnumerateAll(d1, IncompleteRepos(d1, rtp), rem)
        d3  == FetchAll(d2, WorkList(d2, rtp), o.concurrency, rem)
    IN  IF o.includePRCounts THEN CountAll(d3, IncompletePRRepos(d3, rtp), rem) ELSE d3

\* C24 (observer isolation): whatever phase the observer throws in, a pass
\* whose requests the remote serves ends by returning, and its store and its
\* result are those of the same pass with an observer that never throws.
ObserverIsolation ==
    (pc \in {"done", "failed"} /\ remote.listing = "ok")
        => LET quiet == QuietStore(prev.begun, opts, remote)
           IN  /\ pc = "done"
               /\ cache = quiet
               /\ result = Stats(quiet, ReposToProcess(quiet, opts), opts)

\* C24 happens: the observer threw on a "pr-counts" event and the pass has
\* ended
ObserverIsolationWitness ==
    /\ pc = "done"
    /\ opts.throwsAt = "pr-counts"
    /\ \E i \in DOMAIN events : events[i].phase = "pr-counts"

\* the "shas" events of the pass for one repository
ShasEvents(key) ==
    SelectSeq(events, LAMBDA e : e.phase = "shas" /\ e.repo = key)

\* C25 ("shas" event): once enumeration is over, every repository enumerated
\* in the pass has exactly one "shas" event, and it carries the number of
\* hashes stored for the repository.
ShasOncePerRepo ==
    (pc \in {"phase3", "phase35", "phase4", "done"} /\ opts.throwsAt = "never")
        => \A i \in DOMAIN incompleteRepos :
               LET key == repoKey(incompleteRepos[i])
               IN  /\ Len(ShasEvents(key)) = 1
                   /\ ShasEvents(key)[1].count = Len(getCommits(cache, key))

\* C25 happens: a pass has enumerated a repository whose history has two
\* pages
ShasOncePerRepoWitness ==
    /\ pc = "done"
    /\ opts.throwsAt = "never"
    /\ \E i \in DOMAIN incompleteRepos :
           Len(remote.history[repoKey(incompleteRepos[i])]) = 2

\* C26 (aggregate always runs): a pass that has returned handed over exactly
\* one "aggregate" event, as its last event, and returned the aggregation of
\* the store as it is, also when the pass had nothing else to do.
AggregateAlways ==
    pc = "done"
        => /\ events # <<>>
           /\ \A i \in DOMAIN events : events[i].phase = "aggregate" <=> i = Len(events)
           /\ result = Stats(cache, ReposToProcess(cache, opts), opts)

\* C26 happens: a pass that sent no request and had no other event returned
AggregateAlwaysWitness ==
    /\ pc = "done"
    /\ sent = <<>>
    /\ events = <<[phase |-> "aggregate"]>>

\* C30 (hard failure in discovery): when the listing of the repositories
\* answers with a failure, a pass that is past discovery has failed, has sent
\* nothing but the listing request, has had no event of a later phase and
\* returned nothing, and the store has no repository in memory or in the
\* file, so that every later pass sends the listing request again.
DiscoveryHardFailure ==
    (remote.listing = "error" /\ pc \notin {"idle", "phase1"})
        => /\ pc = "failed"
           /\ result = NotRun
           /\ \A i \in DOMAIN events : events[i].phase = "discover"
           /\ Len(cache.repos) = 0
           /\ Len(load(disk).data.repos) = 0
           /\ sent = IF opts.throwsAt = "discover" THEN <<>> ELSE <<[kind |-> "listing"]>>

\* C30 happens: the pass after a pass that failed has asked for the listing
\* again and failed
DiscoveryHardFailureWitness ==
    /\ pc = "failed"
    /\ prev.kind = "failed"
    /\ remote.listing = "error"
    /\ sent = <<[kind |-> "listing"]>>

\* the requests of the pass that belong to discovery
DiscoveryRequests ==
    SelectSeq(sent, LAMBDA q : q.kind \in {"listing", "contributions"})

RepoA2 == [owner |-> "o", name |-> "a", isPrivate |-> TRUE]

RepoC == [owner |-> "p", name |-> "a", isPrivate |-> FALSE]

ListPage(repos, full) == [kind |-> "page", repos |-> repos, full |-> full]

ListError == [kind |-> "error"]

ListingMenu ==
    {<<>>,
     <<ListError>>,
     <<ListPage(<<RepoA>>, FALSE)>>,
     <<ListPage(<<RepoA, RepoC, RepoA2>>, FALSE)>>,
     <<ListPage(<<RepoB>>, TRUE)>>,
     <<ListPage(<<RepoA, RepoB>>, TRUE), ListPage(<<RepoC>>, FALSE)>>,
     <<ListPage(<<RepoA>>, TRUE), ListError>>}

YearOk(repos) == [kind |-> "ok", repos |-> repos]

YearError == [kind |-> "error"]

YearMenu == {YearError, YearOk(<<>>), YearOk(<<RepoB>>), YearOk(<<RepoA2, RepoC, RepoA>>)}

currentYear == MaxYears

InitDiscover ==
    /\ \E pages \in ListingMenu, yearly \in [1..currentYear -> YearMenu],
          fromYear \in 1..(currentYear + 1) :
           disc = [pages |-> pages, yearly |-> yearly, fromYear |-> fromYear,
                   st |-> "rest", page |-> 1, repos |-> <<>>, year |-> fromYear,
                   contrib |-> <<>>, out |-> <<>>, sent |-> <<>>]
    /\ disk = FileMissing
    /\ cache = emptyCache
    /\ opts = NotRun
    /\ remote = NotRun
    /\ pc = "off"
    /\ reposToProcess = <<>>
    /\ incompleteRepos = <<>>
    /\ ei = 0
    /\ shas = <<>>
    /\ cursor = 0
    /\ workList = <<>>
    /\ wi = 0
    /\ inflight = <<>>
    /\ incompletePRRepos = <<>>
    /\ pj = 0
    /\ prFetched = 0
    /\ result = NotRun
    /\ runs = 0
    /\ crashes = 0
    /\ passTomb = {}
    /\ prev = NotRun
    /\ sent = <<>>
    /\ saveCounter = 0
    /\ events = <<>>
    /\ StoreOff /\ LoadOff /\ RateOff /\ AggOff

discFixed == <<disk, cache, opts, remote, pc, reposToProcess, incompleteRepos, ei, shas,
               cursor, workList, wi, inflight, incompletePRRepos, pj, prFetched, result,
               runs, crashes, passTomb, prev, sent, saveCounter, events,
               storeVars, loadVars, rateVars, aggVars>>

\* the answer to the listing query of one page
ListingAnswer(pages, p) == IF p \in DOMAIN pages THEN pages[p] ELSE ListPage(<<>>, FALSE)

\* a union that keeps every repository handed to it
MapSetAllKeep(m, list) == m \o [i \in DOMAIN list |-> [key |-> repoKey(list[i]), val |-> list[i]]]

\* github-client.ts lines 217, 225: for (const r of list) repoMap.set(key, r)
RECURSIVE MapSetAll(_, _)
MapSetAll(m, list) ==
    IF list = <<>> THEN m
    ELSE MapSetAll(OmSet(m, repoKey(Head(list)), Head(list)), Tail(list))

\* github-client.ts lines 181-191: if (!repoMap.has(key)) repoMap.set(key, ...)
RECURSIVE MapAddNew(_, _)
MapAddNew(m, list) ==
    IF list = <<>> THEN m
    ELSE MapAddNew(IF OmHas(m, repoKey(Head(list))) THEN m
                   ELSE Append(m, [key |-> repoKey(Head(list)), val |-> Head(list)]),
                   Tail(list))

\* [...repoMap.values()]
MapValues(m) == [i \in DOMAIN m |-> m[i].val]

\* github-client.ts lines 104-126: one turn of the paging loop of the listing
DiscListPage ==
    /\ disc.st = "rest"
    /\ LET ans == ListingAnswer(disc.pages, disc.page)
           d   == [disc EXCEPT !.sent = Append(@, [kind |-> "listing", page |-> disc.page])]
       IN  disc' = IF ans.kind = "error" THEN [d EXCEPT !.st = "threw"]
                   ELSE IF ans.repos = <<>> THEN [d EXCEPT !.st = "years"]
                   ELSE IF ~ans.full
                   THEN [d EXCEPT !.st = "years", !.repos = @ \o ans.repos]
                   ELSE [d EXCEPT !.repos = @ \o ans.repos, !.page = @ + 1]
    /\ UNCHANGED discFixed

\* a scan that stops at the first year whose query fails
AfterYearAbort(ans, y) == IF ans.kind = "error" THEN currentYear + 1 ELSE y + 1

\* github-client.ts line 144: year++ after the try and its catch
AfterYear(ans, y) == y + 1

\* github-client.ts lines 144-199: one turn of the loop over the years
DiscYear ==
    /\ disc.st = "years"
    /\ disc.year <= currentYear
    /\ LET ans == disc.yearly[disc.year]
       IN  disc' = [disc EXCEPT
                       !.sent = Append(@, [kind |-> "contributions", year |-> disc.year]),
                       !.contrib = IF ans.kind = "ok" THEN MapAddNew(@, ans.repos) ELSE @,
                       !.year = AfterYear(ans, @)]
    /\ UNCHANGED discFixed

\* github-client.ts lines 201, 215-228: the loop is over, the union is returned
DiscReturn ==
    /\ disc.st = "years"
    /\ disc.year > currentYear
    /\ disc' = [disc EXCEPT
                   !.st = "returned",
                   !.out = MapValues(MapSetAll(MapSetAll(<<>>, disc.repos),
                                               MapValues(disc.contrib)))]
    /\ UNCHANGED discFixed

NextDiscover == DiscListPage \/ DiscYear \/ DiscReturn

SpecDiscover == InitDiscover /\ [][NextDiscover]_vars

\* the (owner, name) pairs of a list of repositories
Pairs(list) == {<<list[i].owner, list[i].name>> : i \in DOMAIN list}

\* the repositories the server returned to the queries of the call
Returned ==
    UNION {IF disc.sent[i].kind = "listing"
           THEN Pairs(ListingAnswer(disc.pages, disc.sent[i].page).repos)
           ELSE IF disc.yearly[disc.sent[i].year].kind = "ok"
           THEN Pairs(disc.yearly[disc.sent[i].year].repos)
           ELSE {} : i \in DOMAIN disc.sent}

\* C32 (discovery union): the list the call returns has every repository
\* the listing or a successful year query returned, and no (owner, name)
\* pair twice.
DiscoveryUnion ==
    disc.st = "returned"
        => /\ Returned \subseteq Pairs(disc.out)
           /\ \A i, j \in DOMAIN disc.out :
                  (disc.out[i].owner = disc.out[j].owner
                       /\ disc.out[i].name = disc.out[j].name) => i = j

\* C32 happens: a call that was handed the same repository by the listing
\* and by a year query, and another one by a year query alone, has returned
DiscoveryUnionWitness ==
    /\ disc.st = "returned"
    /\ <<"o", "a">> \in Pairs(disc.repos)
    /\ <<"o", "a">> \in Pairs(MapValues(disc.contrib))
    /\ <<"o", "b">> \in Pairs(disc.out) \ Pairs(disc.repos)

\* the year queries of the call, in the order sent
YearQueries == SelectSeq(disc.sent, LAMBDA q : q.kind = "contributions")

\* C33 (a failed year is skipped): a call that has returned sent one query
\* for each year from fromYear to the current year, in ascending order, and
\* the repositories of its year scan are those of the years that answered.
YearFailureSkipped ==
    disc.st = "returned"
        => /\ Len(YearQueries) = currentYear + 1 - disc.fromYear
           /\ \A i \in DOMAIN YearQueries : YearQueries[i].year = disc.fromYear + i - 1
           /\ Pairs(MapValues(disc.contrib))
                  = UNION {IF disc.yearly[y].kind = "ok" THEN Pairs(disc.yearly[y].repos)
                           ELSE {} : y \in disc.fromYear..currentYear}

\* C33 happens: the query of the first year failed, and the call returned
\* with a repository of a later year
YearFailureSkippedWitness ==
    /\ disc.st = "returned"
    /\ disc.fromYear < currentYear
    /\ disc.yearly[disc.fromYear].kind = "error"
    /\ disc.contrib # <<>>

(***************************************************************************)
(* SpecPace: the PR-count phase of getGithubLangStats under a clock that   *)
(* counts seconds.  The store holds three discovered repositories, none of *)
(* them PR-complete; sent logs each request with the time of its dispatch; *)
(* calls holds the timer of the loop while it sleeps.                      *)
(***************************************************************************)
PR_DELAY == 2

PaceRepos == <<RepoA, RepoB, RepoC>>

PaceRemotes == [pr : [{repoKey(PaceRepos[i]) : i \in DOMAIN PaceRepos} -> PRMenu]]

PaceOptions ==
    [user : {"u"}, useCache : BOOLEAN, includePRCounts : {TRUE}]

InitPace ==
    /\ opts \in PaceOptions
    /\ remote \in PaceRemotes
    /\ disk = FileMissing
    /\ cache = [emptyCache EXCEPT !.repos = PaceRepos]
    /\ pc = "phase35"
    /\ reposToProcess = PaceRepos
    /\ incompleteRepos = <<>>
    /\ ei = 0
    /\ shas = <<>>
    /\ cursor = 0
    /\ workList = <<>>
    /\ wi = 0
    /\ inflight = <<>>
    /\ incompletePRRepos = <<>>
    /\ pj = 0
    /\ prFetched = 0
    /\ result = NotRun
    /\ runs = 1
    /\ crashes = 0
    /\ passTomb = {}
    /\ prev = NotRun
    /\ sent = <<>>
    /\ saveCounter = 0
    /\ events = <<>>
    /\ disc = NotRun
    /\ rateLimitTotal = 0
    /\ rateLimitRemaining = 0
    /\ rateLimitReset = 0
    /\ now = 0
    /\ calls = <<>>
    /\ StoreOff /\ LoadOff /\ AggOff

paceFixed == <<opts, remote, reposToProcess, incompleteRepos, ei, shas, cursor, workList, wi,
               result, runs, crashes, passTomb, prev, saveCounter, events, disc,
               rateLimitTotal, rateLimitRemaining, rateLimitReset,
               storeVars, loadVars, aggVars>>

\* a second passes
PaceTick ==
    /\ now < MaxClock
    /\ now' = now + 1
    /\ UNCHANGED <<disk, cache, pc, incompletePRRepos, pj, prFetched, inflight, sent, calls,
                   paceFixed>>

\* lines 277-283
PaceBegin ==
    /\ pc = "phase35"
    /\ incompletePRRepos' = IF opts.includePRCounts
                            THEN IncompletePRRepos(cache, reposToProcess) ELSE <<>>
    /\ pj' = 1
    /\ prFetched' = 0
    /\ pc' = IF Len(incompletePRRepos') > 0 THEN "pr" ELSE "aggregate"
    /\ UNCHANGED <<disk, cache, inflight, sent, now, calls, paceFixed>>

\* lines 284-286: the PR search of the next repository is sent
PaceDispatch ==
    /\ pc = "pr"
    /\ inflight' = Append(inflight, [kind |-> "prcount",
                                     key |-> repoKey(incompletePRRepos[pj])])
    /\ sent' = Append(sent, [kind |-> "prcount", key |-> repoKey(incompletePRRepos[pj]),
                             at |-> now])
    /\ pc' = "prWait"
    /\ UNCHANGED <<disk, cache, incompletePRRepos, pj, prFetched, now, calls, paceFixed>>

\* line 297: a sleep follows unless every repository of the list gave a count
SleepsAfter(fetched, total) == fetched < total

\* lines 286-303: the answer arrives; the count is stored and saved and the
\* loop sleeps, or the failure is swallowed and the loop goes on at once
PaceRespond ==
    /\ pc = "prWait"
    /\ LET key   == repoKey(incompletePRRepos[pj])
           resp  == fetchPRCount(remote, key)
           after == IF pj >= Len(incompletePRRepos) THEN "aggregate" ELSE "pr"
       IN  IF resp.kind = "ok"
           THEN /\ cache' = markRepoPRComplete(setPRCount(cache, key, resp.count), key)
                /\ prFetched' = prFetched + 1
                /\ disk' = Saved(opts, cache', disk)
                /\ IF SleepsAfter(prFetched', Len(incompletePRRepos))
                   THEN /\ calls' = <<[st |-> "sleeping", wakeAt |-> now + PR_DELAY]>>
                        /\ pc' = "prSleep"
                        /\ pj' = pj
                   ELSE /\ pc' = after
                        /\ pj' = pj + 1
                        /\ UNCHANGED calls
           ELSE /\ cache' = markRepoPRComplete(cache, key)
                /\ pc' = after
                /\ pj' = pj + 1
                /\ UNCHANGED <<prFetched, disk, calls>>
    /\ inflight' = <<>>
    /\ UNCHANGED <<incompletePRRepos, sent, now, paceFixed>>

\* line 298: the timer has run out
PaceWake ==
    /\ pc = "prSleep"
    /\ now >= calls[1].wakeAt
    /\ calls' = <<>>
    /\ pc' = IF pj >= Len(incompletePRRepos) THEN "aggregate" ELSE "pr"
    /\ pj' = pj + 1
    /\ UNCHANGED <<disk, cache, incompletePRRepos, prFetched, inflight, sent, now, paceFixed>>

NextPace == PaceTick \/ PaceBegin \/ PaceDispatch \/ PaceRespond \/ PaceWake

SpecPace == InitPace /\ [][NextPace]_vars

\* C34 (search pacing): any two PR-count requests sent one after the other
\* are at least the pacing delay apart, and at most one PR-count request is
\* in flight.
SearchPacing ==
    /\ \A i \in DOMAIN sent :
           i + 1 \in DOMAIN sent => sent[i + 1].at - sent[i].at >= PR_DELAY
    /\ Len(inflight) <= 1

\* C34 happens: the request that follows a request whose count arrived has
\* been sent
SearchPacingWitness ==
    /\ Len(sent) >= 2
    /\ fetchPRCount(remote, sent[1].key).kind = "ok"

(***************************************************************************)
(* SpecLoop: the detail phase of getGithubLangStats for every concurrency  *)
(* from 0 up, one step per turn of its loop, every fetch of a batch having *)
(* settled.  The store holds the enumerated histories of the remote.       *)
(* SpecLoopFair adds that a turn that can be taken is taken.               *)
(***************************************************************************)
LoopOptions ==
    [user : {"u"},
     useCache : BOOLEAN,
     concurrency : 0..MaxConcurrency,
     repoFilter : {NoFilter},
     includePRCounts : {TRUE},
     includeCommitDates : {TRUE},
     excludeLanguages : {<<>>}]

LoopRemotes ==
    {r \in Remotes([repoFilter |-> NoFilter]) : \A k \in PipeKeys : r.pr[k] = PROk(2)}

InitLoop ==
    /\ opts \in LoopOptions
    /\ remote \in LoopRemotes
    /\ disk = FileMissing
    /\ cache = EnumerateAll([emptyCache EXCEPT !.repos = remote.repos], remote.repos, remote)
    /\ pc = "phase3"
    /\ reposToProcess = remote.repos
    /\ incompleteRepos = <<>>
    /\ ei = 0
    /\ shas = <<>>
    /\ cursor = 0
    /\ workList = <<>>
    /\ wi = 0
    /\ inflight = <<>>
    /\ incompletePRRepos = <<>>
    /\ pj = 0
    /\ prFetched = 0
    /\ result = NotRun
    /\ runs = 1
    /\ crashes = 0
    /\ passTomb = {}
    /\ prev = NotRun
    /\ sent = <<>>
    /\ saveCounter = 0
    /\ events = <<>>
    /\ disc = NotRun
    /\ StoreOff /\ LoadOff /\ RateOff /\ AggOff

loopFixed == <<opts, remote, reposToProcess, incompleteRepos, ei, shas, cursor, inflight,
               incompletePRRepos, pj, prFetched, result, runs, crashes, passTomb, prev,
               saveCounter, events, disc, storeVars, loadVars, rateVars, aggVars>>

\* lines 243-254: the work list
LoopBegin ==
    /\ pc = "phase3"
    /\ workList' = WorkList(cache, reposToProcess)
    /\ wi' = 0
    /\ pc' = "batch"
    /\ UNCHANGED <<disk, cache, sent, loopFixed>>

\* lines 255-273: one turn of the loop: the batch is sliced, fetched,
\* recorded and saved, and i moves on by concurrency
LoopTurn ==
    /\ pc = "batch"
    /\ wi < Len(workList)
    /\ LET n     == opts.concurrency
           batch == Slice(workList, wi, n)
       IN  /\ cache' = RecordBatch(cache, batch, BatchResults(remote, workList, wi, n))
           /\ sent' = sent \o BatchRequests(workList, wi, n)
           /\ disk' = Saved(opts, cache', disk)
           /\ wi' = wi + n
    /\ UNCHANGED <<pc, workList, loopFixed>>

\* line 255: i has reached the end of the work list
LoopEnd ==
    /\ pc = "batch"
    /\ wi >= Len(workList)
    /\ pc' = "phase35"
    /\ UNCHANGED <<disk, cache, workList, wi, sent, loopFixed>>

NextLoop == LoopBegin \/ LoopTurn \/ LoopEnd

SpecLoop == InitLoop /\ [][NextLoop]_vars

SpecLoopFair == SpecLoop /\ WF_vars(NextLoop)

\* the hashes of the lists of the repositories of the pass
SelectedHashes ==
    UNION {Range(getCommits(cache, repoKey(reposToProcess[i]))) : i \in DOMAIN reposToProcess}

\* C38 (the detail phase ends, and ends complete): for every concurrency
\* the loop of the detail phase is left, and once it is left every hash of
\* the lists of the repositories of the pass is a key of the detail map.
DetailPhaseCompletes ==
    /\ <>(pc = "phase35")
    /\ [](pc = "phase35" => SelectedHashes \subseteq DOMAIN cache.commitDetails)

\* C38 happens: the loop runs with concurrency 0 over a work list that is
\* not empty
DetailPhaseCompletesWitness ==
    /\ pc = "batch"
    /\ opts.concurrency = 0
    /\ workList # <<>>

(***************************************************************************)
(* The store written to a file and read back (cache.ts save, load), with   *)
(* the text of the file spelled out as a JSON value: null, number, string, *)
(* boolean, array, or object with its members in order.  JSON.stringify    *)
(* leaves out a member whose value is undefined and keeps a member whose   *)
(* value is null; JSON.parse gives back arrays and plain objects, and the  *)
(* store reads its fields from them.                                       *)
(***************************************************************************)
MaxMutations == 3

Undefined == [kind |-> "undefined"]

JNull == [t |-> "null"]

\* a finite number: counts, line counts and timestamps (Date.parse of the
\* author date GitHub sends, or 0)
JNum(n) == [t |-> "num", n |-> n]

JStr(s) == [t |-> "str", s |-> s]

JBool(b) == [t |-> "bool", b |-> b]

JArr(items) == [t |-> "arr", items |-> items]

Member(k, v) == [key |-> k, val |-> v]

\* an object writer that leaves out null members as well: StoreRoundTrip
\* fails of it
JsonObjectDropNull(members) ==
    [t |-> "obj", members |-> SelectSeq(members, LAMBDA m : m.val # Undefined /\ m.val # JNull)]

JsonObject(members) ==
    [t |-> "obj", members |-> SelectSeq(members, LAMBDA m : m.val # Undefined)]

RECURSIVE KeysInOrder(_)
KeysInOrder(S) ==
    IF S = {} THEN <<>>
    ELSE LET k == CHOOSE x \in S : TRUE IN <<k>> \o KeysInOrder(S \ {k})

ToJsonList(list) == JArr([i \in DOMAIN list |-> JStr(list[i])])

ToJsonRepo(r) ==
    JsonObject(<<Member("owner", JStr(r.owner)), Member("name", JStr(r.name)),
                 Member("isPrivate", JBool(r.isPrivate))>>)

ToJsonFile(f) ==
    JsonObject(<<Member("filename", JStr(f.filename)), Member("additions", JNum(f.additions)),
                 Member("deletions", JNum(f.deletions)), Member("status", JStr(f.status))>>)

ToJsonDetail(d) ==
    IF d = Undefined THEN Undefined
    ELSE IF d = NULL THEN JNull
    ELSE JsonObject(<<Member("sha", JStr(d.sha)), Member("date", JNum(d.date)),
                      Member("files", JArr([i \in DOMAIN d.files |-> ToJsonFile(d.files[i])]))>>)

ToJsonShaLists(m) ==
    LET ks == KeysInOrder(DOMAIN m)
    IN  JsonObject([i \in DOMAIN ks |-> Member(ks[i], ToJsonList(m[ks[i]]))])

ToJsonDetails(m) ==
    LET ks == KeysInOrder(DOMAIN m)
    IN  JsonObject([i \in DOMAIN ks |-> Member(ks[i], ToJsonDetail(m[ks[i]]))])

ToJsonCounts(m) ==
    LET ks == KeysInOrder(DOMAIN m)
    IN  JsonObject([i \in DOMAIN ks |-> Member(ks[i], JNum(m[ks[i]]))])

\* JSON.stringify(this.data, null, 2)
ToJson(data) ==
    JsonObject(<<Member("version", JNum(data.version)),
                 Member("repos", JArr([i \in DOMAIN data.repos |-> ToJsonRepo(data.repos[i])])),
                 Member("completedRepos", ToJsonList(data.completedRepos)),
                 Member("commitsByRepo", ToJsonShaLists(data.commitsByRepo)),
                 Member("commitDetails", ToJsonDetails(data.commitDetails)),
                 Member("prCountByRepo", ToJsonCounts(data.prCountByRepo)),
                 Member("completedPRRepos", ToJsonList(data.completedPRRepos))>>)

\* obj.k of a parsed object: undefined where the text has no such member
Field(j, k) == IF OmHas(j.members, k) THEN OmGet(j.members, k) ELSE Undefined

FromJsonList(j) == [i \in DOMAIN j.items |-> j.items[i].s]

FromJsonRepo(j) ==
    [owner |-> Field(j, "owner").s, name |-> Field(j, "name").s,
     isPrivate |-> Field(j, "isPrivate").b]

FromJsonFile(j) ==
    [filename |-> Field(j, "filename").s, additions |-> Field(j, "additions").n,
     deletions |-> Field(j, "deletions").n, status |-> Field(j, "status").s]

FromJsonDetail(j) ==
    IF j = JNull THEN NULL
    ELSE LET files == Field(j, "files").items
         IN  Detail(Field(j, "sha").s, Field(j, "date").n,
                    [i \in DOMAIN files |-> FromJsonFile(files[i])])

\* JSON.parse(raw) as Cache, read through the fields of Cache
FromJson(j) ==
    [version          |-> Field(j, "version").n,
     repos            |-> LET rs == Field(j, "repos").items
                          IN  [i \in DOMAIN rs |-> FromJsonRepo(rs[i])],
     completedRepos   |-> FromJsonList(Field(j, "completedRepos")),
     commitsByRepo    |-> LET o == Field(j, "commitsByRepo")
                          IN  [k \in OmKeys(o.members) |-> FromJsonList(Field(o, k))],
     commitDetails    |-> LET o == Field(j, "commitDetails")
                          IN  [k \in OmKeys(o.members) |-> FromJsonDetail(Field(o, k))],
     prCountByRepo    |-> LET o == Field(j, "prCountByRepo")
                          IN  [k \in OmKeys(o.members) |-> Field(o, k).n],
     completedPRRepos |-> FromJsonList(Field(j, "completedPRRepos"))]

\* save(): the text written to the path
saveText(data) == [kind |-> "text", json |-> ToJson(data)]

\* load() of a file that save() wrote
loadText(file) ==
    IF file.kind = "missing" THEN emptyCache
    ELSE IF Field(file.json, "version") # JNum(CACHE_VERSION) THEN emptyCache
    ELSE FromJson(file.json)

TripKeys == {repoKey(RepoA), repoKey(RepoB)}

TripLists == {<<"h1">>, <<"h2", "h1">>}

TripShas == {"h1", "h2"}

TripCounts == {0, 2}

InitTrip ==
    /\ sData = emptyCache
    /\ sLog = <<>>
    /\ lFile = FileMissing
    /\ lOut = NotRun
    /\ PipeOff /\ RateOff /\ AggOff

tripFixed == <<pipeVars, rateVars, aggVars>>

Mutated(data, name) ==
    /\ Len(sLog) < MaxMutations
    /\ sData' = data
    /\ sLog' = Append(sLog, name)
    /\ UNCHANGED <<lFile, lOut, tripFixed>>

\* set repos(repos)
TripSetRepos == \E rs \in {<<RepoA>>, <<RepoA, RepoB>>} :
    Mutated([sData EXCEPT !.repos = rs], "repos")

TripAddCommits == \E k \in TripKeys, l \in TripLists :
    Mutated(addCommits(sData, k, l), "addCommits")

TripMarkRepoComplete == \E k \in TripKeys :
    Mutated(markRepoComplete(sData, k), "markRepoComplete")

TripSetCommitDetail == \E sha \in TripShas : \E d \in {NULL, DetailOf[sha]} :
    Mutated(setCommitDetail(sData, sha, d), "setCommitDetail")

TripSetPRCount == \E k \in TripKeys, n \in TripCounts :
    Mutated(setPRCount(sData, k, n), "setPRCount")

TripMarkRepoPRComplete == \E k \in TripKeys :
    Mutated(markRepoPRComplete(sData, k), "markRepoPRComplete")

\* the last step was a save and a load of what it wrote
Reloaded == IF sLog = <<>> THEN FALSE ELSE sLog[Len(sLog)] = "reloaded"

\* save(), then new CacheStore(path) of the same path
TripSaveLoad ==
    /\ ~Reloaded
    /\ lFile' = saveText(sData)
    /\ lOut' = [threw |-> FALSE, data |-> loadText(lFile')]
    /\ sLog' = Append(sLog, "reloaded")
    /\ UNCHANGED <<sData, tripFixed>>

NextTrip ==
    \/ TripSetRepos
    \/ TripAddCommits
    \/ TripMarkRepoComplete
    \/ TripSetCommitDetail
    \/ TripSetPRCount
    \/ TripMarkRepoPRComplete
    \/ TripSaveLoad

SpecTrip == InitTrip /\ [][NextTrip]_vars

\* C39: after any sequence of store mutations, save followed by loading a
\* new store from the same path yields the same repositories, the same hash
\* lists in the same order, the same completion flags, pull-request counts
\* and detail map; a tombstoned hash is still reported as fetched with the
\* value null and an unfetched hash as not fetched.
StoreRoundTrip ==
    Reloaded =>
        /\ lOut.data.repos = sData.repos
        /\ lOut.data.commitsByRepo = sData.commitsByRepo
        /\ lOut.data.completedRepos = sData.completedRepos
        /\ lOut.data.completedPRRepos = sData.completedPRRepos
        /\ lOut.data.prCountByRepo = sData.prCountByRepo
        /\ lOut.data.commitDetails = sData.commitDetails
        /\ \A sha \in Hashes :
            /\ hasCommitDetail(lOut.data, sha) <=> hasCommitDetail(sData, sha)
            /\ (hasCommitDetail(sData, sha) /\ sData.commitDetails[sha] = NULL)
                   => lOut.data.commitDetails[sha] = NULL

StoreRoundTripWitness ==
    /\ Reloaded
    /\ hasCommitDetail(sData, "h1") /\ sData.commitDetails["h1"] = NULL
    /\ hasCommitDetail(lOut.data, "h1") /\ lOut.data.commitDetails["h1"] = NULL
    /\ ~hasCommitDetail(sData, "h2") /\ ~hasCommitDetail(lOut.data, "h2")
    /\ getCommits(lOut.data, repoKey(RepoA)) = <<"h2", "h1">>

(***************************************************************************)
(* Further properties of the pipeline.                                     *)
(***************************************************************************)
\* a page query of the history failed: the hashes after it were never listed
CutShort(hist) == \E i \in DOMAIN hist : hist[i].kind = "error"

\* the store marks no repository SHA-complete whose enumeration was cut
\* short, and lists for a complete repository the hashes of its pages
ExactIn(data) ==
    \A key \in Completed(data) :
        /\ ~CutShort(remote.history[key])
        /\ Range(getCommits(data, key)) = Listed(remote.history[key])

\* C12: in every state of the pipeline a repository marked SHA-complete, in
\* memory or on disk, has as its stored list the authored hashes the remote
\* holds, and was not marked after an enumeration cut short by a failed page
ShaCompleteExact ==
    pc # "off" => (ExactIn(cache) /\ ExactIn(load(disk).data))

\* C12 happens: a repository is marked SHA-complete on disk
ShaCompleteExactWitness ==
    /\ pc # "off"
    /\ \E key \in Completed(load(disk).data) : getCommits(cache, key) # <<>>

\* every value of the detail map d is the value of e for the same hash
KeepsDetails(d, e) == \A h \in DOMAIN d : h \in DOMAIN e /\ e[h] = d[h]

\* C13: a hash that is a key of the detail map, in memory during a pass or on
\* disk across passes, keeps its value, a detail or a tombstone, in every
\* later step of the pipeline
DetailTerminal ==
    [][/\ (pc \notin {"off", "idle", "done"} /\ pc' # "idle")
              => KeepsDetails(cache.commitDetails, cache'.commitDetails)
       /\ pc # "off"
              => KeepsDetails(load(disk).data.commitDetails, load(disk').data.commitDetails)]_vars

\* C13 happens: a batch is recorded while the detail map holds a hash
DetailTerminalWitness ==
    /\ pc = "batchWait"
    /\ DOMAIN cache.commitDetails # {}

\* the value the pipeline records for one entry of a batch: the result of
\* its own fetch, a tombstone when the fetch is rejected
OwnResult(w) ==
    LET res == fetchCommitDetail(remote, w.owner \o "/" \o w.repo, w.sha)
    IN  IF res.status = "fulfilled" THEN res.value ELSE NULL

\* the hash of entry j is the hash of no other entry of the batch
OnceInBatch(batch, j) == \A k \in DOMAIN batch : batch[k].sha = batch[j].sha => k = j

InFlightDetails == SelectSeq(inflight, LAMBDA r : r.kind = "detail")

\* C16: the fetchCommitDetail calls in flight are never more than the
\* configured concurrency, and each is a call of the current batch: none of
\* the next batch is out while a call of this one has not settled
Backpressure ==
    pc # "off" =>
        /\ Len(InFlightDetails) <= opts.concurrency
        /\ InFlightDetails # <<>> =>
               /\ pc = "batchWait"
               /\ InFlightDetails = inflight
               /\ LET batch == Slice(workList, wi, opts.concurrency)
                  IN  /\ Len(inflight) = Len(batch)
                      /\ \A j \in DOMAIN inflight :
                             /\ inflight[j].sha = batch[j].sha
                             /\ inflight[j].key = batch[j].owner \o "/" \o batch[j].repo

\* C16 happens: in the second batch of a pass with concurrency 2 one call
\* has settled and the other has not
BackpressureWitness ==
    /\ pc = "batchWait"
    /\ opts.concurrency = 2
    /\ wi = 2
    /\ Len(inflight) = 2
    /\ inflight[1].settled /\ ~inflight[2].settled

\* C19 (flush on graceful exit): whenever getGithubLangStats with
\* useCache=true has returned, the file holds the store as the memory holds
\* it: repositories, SHA lists, details, PR counts and both completion
\* flags, the PR-complete flag of a failed PR-count fetch included.
FlushOnExit ==
    (pc = "done" /\ opts.useCache) => load(disk).data = cache

\* a pass with useCache=true has returned after a PR-count fetch failed
FlushOnExitWitness ==
    /\ pc = "done"
    /\ opts.useCache
    /\ \E k \in Range(cache.completedPRRepos) : k \notin DOMAIN cache.prCountByRepo

\* C20 (useCache=false disables the cache file): of two passes with
\* useCache=false in a row that differ only in the content of the file at
\* cachePath, the second sends the requests the first sent, in the same
\* order, and returns the same totals and byRepo; and no step of a pass
\* writes the file.
NoCacheIgnoresFile ==
    /\ [](( pc = "done" /\ prev # NotRun )
            => /\ sent = prev.sent
               /\ result.totals = prev.result.totals
               /\ result.byRepo = prev.result.byRepo)
    /\ [][disk' # disk => (pc \in {"idle", "done"} /\ pc' = pc)]_vars

\* a second pass with useCache=false has returned, begun from a planted file
NoCacheIgnoresFileWitness ==
    /\ pc = "done"
    /\ ~opts.useCache
    /\ prev # NotRun
    /\ disk \in PlantedFiles

\* C27 (completion flags are monotonic): within a pass, a repository whose
\* SHA-complete flag or PR-complete flag is set in the store has it set
\* after every later step; no step of the pipeline clears a flag.
FlagsMonotonic ==
    [][(pc \notin {"idle", "done"} /\ pc' # "idle")
           => /\ Range(cache.completedRepos) \subseteq Range(cache'.completedRepos)
              /\ Range(cache.completedPRRepos) \subseteq Range(cache'.completedPRRepos)]_vars

\* both flags of o/a are set while the pass still works on o/b
FlagsMonotonicWitness ==
    /\ pc = "prWait"
    /\ Includes(cache.completedRepos, "o/a")
    /\ Includes(cache.completedRepos, "o/b")
    /\ Includes(cache.completedPRRepos, "o/a")

\* C28 (PR counts are best effort): with PR counts enabled, once the PR
\* phase has ended every repository of the pass is PR-complete and every
\* count the remote gave is stored, a failed fetch stopping nothing; and a
\* pass that follows a finished pass over the same cache file sends no
\* PR-count request.
PRBestEffort ==
    /\ (pc \in {"aggregate", "done"} /\ opts.includePRCounts)
           => \A i \in DOMAIN reposToProcess :
                  LET key == repoKey(reposToProcess[i])
                  IN  /\ Includes(cache.completedPRRepos, key)
                      /\ fetchPRCount(remote, key).kind = "ok"
                             => key \in DOMAIN cache.prCountByRepo
    /\ (pc = "done" /\ opts.useCache /\ prev # NotRun)
           => \A i \in DOMAIN sent : sent[i].kind # "prcount"

\* a pass has ended in which the PR fetch of one repository failed and the
\* fetch of the repository after it gave a count
PRBestEffortWitness ==
    /\ pc = "done"
    /\ opts.includePRCounts
    /\ Len(reposToProcess) = 2
    /\ fetchPRCount(remote, repoKey(reposToProcess[1])).kind = "error"
    /\ repoKey(reposToProcess[2]) \in DOMAIN cache.prCountByRepo

\* the history queries of the pass, in the order sent
HistoryQueries == SelectSeq(sent, LAMBDA q : q.kind = "history")

\* C35 (phase order per repository): every detail request of the pass is
\* for a repository that is marked SHA-complete, from the moment it is
\* sent; at most one history query is in flight, and the history queries of
\* one repository are not interleaved with those of another.
PhaseOrder ==
    /\ \A i \in DOMAIN sent :
           sent[i].kind = "detail" => Includes(cache.completedRepos, sent[i].key)
    /\ \A i, j \in DOMAIN inflight :
           (inflight[i].kind = "history" /\ inflight[j].kind = "history") => i = j
    /\ \A i, j, k \in DOMAIN HistoryQueries :
           (i < j /\ j < k /\ HistoryQueries[i].key = HistoryQueries[k].key)
               => HistoryQueries[j].key = HistoryQueries[i].key
    /\ \A i \in DOMAIN inflight :
           inflight[i].kind = "history"
               => \A j \in DOMAIN inflight : inflight[j].kind # "detail"

\* C35 happens: two repositories were enumerated in the pass, one of them
\* over two pages, and a detail request is in flight
PhaseOrderWitness ==
    /\ pc = "batchWait"
    /\ Len(HistoryQueries) >= 3
    /\ HistoryQueries[1].key # HistoryQueries[Len(HistoryQueries)].key
    /\ \E i \in DOMAIN inflight : inflight[i].kind = "detail"

\* the detail requests of the pass, in the order sent
DetailQueries == SelectSeq(sent, LAMBDA q : q.kind = "detail")

\* C37 (single setter per hash): in one pass no two detail requests, and so
\* no two recordings, are for the same hash.
SingleSetter ==
    \A i, j \in DOMAIN DetailQueries :
        DetailQueries[i].sha = DetailQueries[j].sha => i = j

\* C37 happens: a detail request was sent for a hash that the store lists
\* under both repositories of the pass
SingleSetterWitness ==
    /\ Len(reposToProcess) = 2
    /\ \E i \in DOMAIN DetailQueries :
           /\ Includes(getCommits(cache, "o/a"), DetailQueries[i].sha)
           /\ Includes(getCommits(cache, "o/b"), DetailQueries[i].sha)

\* the counts of language L over the entries of byRepo
ByRepoSum(byRepo, L) ==
    SumSeq([i \in DOMAIN byRepo |-> OmAt(byRepo[i].val.contributionsCountPerLanguage, L)])

\* C40: in every result of aggregate, for every language L, totals[L] is the
\* sum of byRepo[r].contributionsCountPerLanguage[L] over the repositories r
\* of byRepo, a language is a key of totals exactly when it is a key of some
\* byRepo entry, and meta.totalRepos is the number of byRepo entries.
TotalsMatchByRepo ==
    aOut # NotRun =>
        /\ OmKeys(aOut.totals) = ByRepoLangs(aOut.byRepo)
        /\ \A L \in FileLangs \cup OmKeys(aOut.totals) \cup ByRepoLangs(aOut.byRepo) :
               OmAt(aOut.totals, L) = ByRepoSum(aOut.byRepo, L)
        /\ aOut.meta.totalRepos = Len(aOut.byRepo)
        /\ aOut.meta.totalRepos = Cardinality(OmKeys(aOut.byRepo))

\* both repositories are reported with TypeScript lines of their own, one
\* language is reported with no lines at all, and one repository has a
\* language the other has not
TotalsMatchByRepoWitness ==
    /\ aOut # NotRun
    /\ aOut.meta.totalRepos = 2
    /\ \A i \in DOMAIN aOut.byRepo :
           OmAt(aOut.byRepo[i].val.contributionsCountPerLanguage, "TypeScript") > 0
    /\ OmAt(aOut.totals, "TypeScript") > ByRepoSum(SubSeq(aOut.byRepo, 1, 1), "TypeScript")
    /\ \E L \in OmKeys(aOut.totals) : OmAt(aOut.totals, L) = 0
    /\ \E L \in OmKeys(aOut.totals) :
           ~OmHas(aOut.byRepo[1].val.contributionsCountPerLanguage, L)

====
